---- MODULE Spec2Model ----
(***************************************************************************)
(* A model of the resilient structured-response recovery code of the       *)
(* coral_pitch_analysis / coral_pitch_generator agents:                    *)
(*   - retry_with_backoff and the transcription wrappers built on it       *)
(*     (coral_pitch_analysis/agents/pitch_analysis_agent.py),              *)
(*   - PitchAgent.generate_pitch with its strict parse / repair / scavenge *)
(*     chain (coral_pitch_generator/agents/pitch_agent.py),                *)
(*   - MistralAnalysisAgent.generate_comprehensive_analysis and its caller *)
(*     (coral_pitch_analysis/agents/mistral_analysis_agent.py).            *)
(* Texts are sequences of one-character strings; json.loads and the        *)
(* regular expressions are computed character by character.                *)
(***************************************************************************)
EXTENDS Integers, Sequences, FiniteSets, TLC

VARIABLES
    call,      \* one execution of retry_with_backoff (and of the wrapper around it)
    pitch,     \* one execution of PitchAgent.generate_pitch
    mistral,   \* one execution of MistralAnalysisAgent.generate_comprehensive_analysis
    other,     \* an execution of retry_with_backoff by a second, independent caller
    analyze    \* one execution of PitchAnalysisAgent.analyze_pitch

vars == <<call, pitch, mistral, other, analyze>>

(***************************************************************************)
(* Bounds of the model.                                                    *)
(***************************************************************************)
\* largest max_retries a direct caller passes
MaxRetriesBound == 3

(***************************************************************************)
(* retry_with_backoff: defaults of the signature and of its two callers.   *)
(***************************************************************************)
DefaultMaxRetries == 3
DefaultBackoffFactor == 2
DefaultMaxDelay == 60
WrapperInitialDelay == 2
RateLimitStatus == 429

\* hasattr(e, 'status_code') is false: the exception carries no status code
NoStatus == 0 - 1

\* The exceptions func can raise: the speech API's ApiError with a status code,
\* requests.RequestException (download of the URL) and FileNotFoundError (open()).
Exceptions ==
    { [cls |-> "ApiError", status_code |-> RateLimitStatus],
      [cls |-> "ApiError", status_code |-> 500],
      [cls |-> "ApiError", status_code |-> 401],
      [cls |-> "RequestException", status_code |-> NoStatus],
      [cls |-> "FileNotFoundError", status_code |-> NoStatus] }

NoException == [cls |-> "none", status_code |-> NoStatus]

\* What func returns: transcription.text.strip() when it is non-empty, else None.
NoneValue == [kind |-> "None", text |-> ""]
FuncValues ==
    { [kind |-> "str", text |-> "We are building an AI assistant"],
      [kind |-> "str", text |-> "Our startup sells solar panels"],
      NoneValue }

\* One outcome of one invocation of func.
FuncOutcomes ==
    { [ok |-> TRUE, value |-> v, exc |-> NoException] : v \in FuncValues }
        \cup { [ok |-> FALSE, value |-> NoneValue, exc |-> e] : e \in Exceptions }

\* if hasattr(e, 'status_code') and e.status_code == 429
IsRateLimitMutant(e) == e.status_code # NoStatus
IsRateLimit(e) == e.status_code # NoStatus /\ e.status_code = RateLimitStatus

RECURSIVE Pow(_, _)
Pow(b, n) == IF n <= 0 THEN 1 ELSE b * Pow(b, n - 1)

Min(a, b) == IF a <= b THEN a ELSE b
Max(a, b) == IF a >= b THEN a ELSE b

\* delay = min(initial_delay * (backoff_factor ** attempt), max_delay)
BackoffDelayMutant(c) == c.initial_delay * Pow(c.backoff_factor, c.attempt)
BackoffDelay(c) == Min(c.initial_delay * Pow(c.backoff_factor, c.attempt), c.max_delay)

\* The arguments of one call.  The two wrappers pass max_retries=3, initial_delay=2.
RetryArgs ==
    { [caller |-> "direct", max_retries |-> m, initial_delay |-> d,
       backoff_factor |-> f, max_delay |-> x] :
        m \in {0 - 1} \cup (0..MaxRetriesBound), d \in {1, 2},
        f \in {DefaultBackoffFactor, 3}, x \in {5, DefaultMaxDelay} }
        \cup
    { [caller |-> w, max_retries |-> DefaultMaxRetries,
       initial_delay |-> WrapperInitialDelay,
       backoff_factor |-> DefaultBackoffFactor, max_delay |-> DefaultMaxDelay] :
        w \in {"_transcribe_local_file", "_transcribe_from_url"} }

NoResult == [kind |-> "pending", value |-> NoneValue, exc |-> NoException]

\* The state of a call right after retry_with_backoff is entered.
NewCall(a) ==
    [ caller |-> a.caller, max_retries |-> a.max_retries,
      initial_delay |-> a.initial_delay, backoff_factor |-> a.backoff_factor,
      max_delay |-> a.max_delay,
      pc |-> "for",            \* for | func | sleep | returned | raised | done | idle
      attempt |-> 0,
      invocations |-> 0,       \* how often func was invoked
      inflight |-> 0,          \* invocations of func started and not finished
      outcomes |-> << >>,      \* the outcome of every finished invocation
      sleeps |-> << >>,        \* the delay of every time.sleep
      result |-> NoResult,     \* what retry_with_backoff returned or raised
      wresult |-> NoResult,    \* what the wrapper returned
      cancelled |-> FALSE,     \* a cancellation signal arrived during a sleep
      at_cancel |-> 0 ]        \* the invocations of func made when it arrived

IdleCall == [NewCall(CHOOSE a \in RetryArgs : a.caller = "direct" /\ a.max_retries = 0)
                EXCEPT !.pc = "idle"]

LoopHeadMutant(c) ==
    IF c.attempt < c.max_retries + 1
    THEN [c EXCEPT !.pc = "func", !.invocations = @ + 2, !.inflight = @ + 2]
    ELSE [c EXCEPT !.pc = "returned",
                   !.result = [kind |-> "return", value |-> NoneValue, exc |-> NoException]]

\* for attempt in range(max_retries + 1): the loop head.  The range is empty when
\* max_retries < 0, and the function then falls off its end and returns None.
LoopHead(c) ==
    IF c.attempt < c.max_retries + 1
    THEN [c EXCEPT !.pc = "func", !.invocations = @ + 1, !.inflight = @ + 1]
    ELSE [c EXCEPT !.pc = "returned",
                   !.result = [kind |-> "return", value |-> NoneValue, exc |-> NoException]]

\* try: return func()  /  except Exception as e: ...
FuncFinishedMutant(c, o) ==
    LET d == [c EXCEPT !.inflight = @ - 1, !.outcomes = Append(@, o)] IN
    IF o.ok
    THEN [d EXCEPT !.pc = "for", !.attempt = @ + 1]
    ELSE IF c.attempt = c.max_retries
    THEN [d EXCEPT !.pc = "raised",
                   !.result = [kind |-> "raise", value |-> NoneValue, exc |-> o.exc]]
    ELSE IF IsRateLimit(o.exc)
    THEN [d EXCEPT !.pc = "sleep", !.sleeps = Append(@, BackoffDelay(c))]
    ELSE [d EXCEPT !.pc = "raised",
                   !.result = [kind |-> "raise", value |-> NoneValue, exc |-> o.exc]]
FuncFinishedSleepsFirstMutant(c, o) ==
    LET d == [c EXCEPT !.inflight = @ - 1, !.outcomes = Append(@, o)] IN
    IF o.ok
    THEN [d EXCEPT !.pc = "returned",
                   !.result = [kind |-> "return", value |-> o.value, exc |-> NoException]]
    ELSE IF ~IsRateLimit(o.exc)
    THEN [d EXCEPT !.pc = "raised",
                   !.result = [kind |-> "raise", value |-> NoneValue, exc |-> o.exc]]
    ELSE IF c.attempt = c.max_retries
    THEN [d EXCEPT !.pc = "raised", !.sleeps = Append(@, BackoffDelay(c)),
                   !.result = [kind |-> "raise", value |-> NoneValue, exc |-> o.exc]]
    ELSE [d EXCEPT !.pc = "sleep", !.sleeps = Append(@, BackoffDelay(c))]
FuncFinished(c, o) ==
    LET d == [c EXCEPT !.inflight = @ - 1, !.outcomes = Append(@, o)] IN
    IF o.ok
    THEN [d EXCEPT !.pc = "returned",
                   !.result = [kind |-> "return", value |-> o.value, exc |-> NoException]]
    ELSE IF c.attempt = c.max_retries
    THEN [d EXCEPT !.pc = "raised",
                   !.result = [kind |-> "raise", value |-> NoneValue, exc |-> o.exc]]
    ELSE IF IsRateLimit(o.exc)
    THEN [d EXCEPT !.pc = "sleep", !.sleeps = Append(@, BackoffDelay(c))]
    ELSE [d EXCEPT !.pc = "raised",
                   !.result = [kind |-> "raise", value |-> NoneValue, exc |-> o.exc]]

\* time.sleep(delay) returns and the for loop takes its next value
SleepDoneMutant(c) == [c EXCEPT !.pc = "for"]
SleepDone(c) == [c EXCEPT !.pc = "for", !.attempt = @ + 1]

\* The placeholder of the transcription wrappers.
Placeholder(w) ==
    IF w = "_transcribe_from_url"
    THEN [kind |-> "str", text |-> "[TRANSCRIPTION UNAVAILABLE - API RATE LIMIT] Unable to transcribe audio from URL due to system overload."]
    ELSE [kind |-> "str", text |-> "[TRANSCRIPTION UNAVAILABLE - API RATE LIMIT] Unable to transcribe audio due to system overload."]

\* _transcribe_local_file / _transcribe_from_url: the try around retry_with_backoff.
WrapperReturnMutant(c) ==
    [kind |-> "return", exc |-> NoException,
     value |-> IF c.result.kind = "return" THEN c.result.value ELSE NoneValue]
WrapperReturn(c) ==
    [kind |-> "return", exc |-> NoException,
     value |->
        IF c.result.kind = "return" THEN c.result.value
        ELSE IF c.caller = "_transcribe_local_file" /\ c.result.exc.cls = "FileNotFoundError"
        THEN NoneValue
        ELSE IF c.caller = "_transcribe_from_url" /\ c.result.exc.cls = "RequestException"
        THEN NoneValue
        ELSE IF IsRateLimit(c.result.exc) THEN Placeholder(c.caller)
        ELSE NoneValue]

(***************************************************************************)
(* Texts and JSON.  A text is a sequence of one-character strings.  A JSON *)
(* value is a record of one shape for every type:                          *)
(*   t      "obj" | "arr" | "str" | "num" | "float" | "true" | "false" |   *)
(*          "null" | "nan" | "inf" | "ninf"                                      *)
(*   s      the characters of a string, or the literal text of a number    *)
(*   n      the value of an integer number                                 *)
(*   keys   the keys of an object, in order of first insertion             *)
(*   items  the values of an object (by key position) or of an array       *)
(* Texts hold no backslash, so string escapes do not occur.                *)
(***************************************************************************)
JsonValue(t, s, n, keys, items) ==
    [t |-> t, s |-> s, n |-> n, keys |-> keys, items |-> items]
StrVal(s) == JsonValue("str", s, 0, << >>, << >>)
IntVal(lit, n) == JsonValue("num", lit, n, << >>, << >>)
FloatVal(lit) == JsonValue("float", lit, 0, << >>, << >>)
LitVal(name) == JsonValue(name, << >>, 0, << >>, << >>)
ArrVal(items) == JsonValue("arr", << >>, 0, << >>, items)
ObjVal(keys, items) == JsonValue("obj", << >>, 0, keys, items)
NullVal == LitVal("null")

\* the backtick character (the one character a string literal here cannot hold)
Backtick == "backtick"

\* json's WHITESPACE, [ \t\n\r]*
JsonWS == {" ", "\t", "\n", "\r"}
Digits == {"0", "1", "2", "3", "4", "5", "6", "7", "8", "9"}
\* characters json.loads (strict) refuses inside a string
ControlChars == {"\t", "\n", "\r", "\f"}

DigitValue(c) ==
    CASE c = "0" -> 0 [] c = "1" -> 1 [] c = "2" -> 2 [] c = "3" -> 3 [] c = "4" -> 4
      [] c = "5" -> 5 [] c = "6" -> 6 [] c = "7" -> 7 [] c = "8" -> 8 [] OTHER -> 9

\* does text s hold the characters of w from position i on
StartsWithAt(s, i, w) ==
    /\ i >= 1
    /\ i + Len(w) - 1 <= Len(s)
    /\ \A k \in 1..Len(w) : s[i + k - 1] = w[k]

\* the least element of a set of positions, 0 for the empty set
MinOf(S) == IF S = {} THEN 0 ELSE CHOOSE k \in S : \A j \in S : k <= j
\* the greatest element of a set of positions, 0 for the empty set
MaxOf(S) == IF S = {} THEN 0 ELSE CHOOSE k \in S : \A j \in S : k >= j

\* the first position from i on that holds no character of ws (Len(s) + 1: none)
SkipChars(s, i, ws) ==
    LET k == MinOf({j \in i..Len(s) : s[j] \notin ws}) IN
    IF k = 0 THEN Max(i, Len(s) + 1) ELSE k

SkipWS(s, i) == SkipChars(s, i, JsonWS)

\* the position of the quote that closes the string whose content starts at i;
\* 0 when the string is unterminated or holds a control character
StringEnd(s, i) ==
    LET k == MinOf({j \in i..Len(s) : s[j] = "\"" \/ s[j] \in ControlChars}) IN
    IF k # 0 /\ s[k] = "\"" THEN k ELSE 0

\* the last position of the run of digits that starts at i (i - 1 when there is none)
DigitRunEnd(s, i) == SkipChars(s, i, Digits) - 1

RECURSIVE DigitsToInt(_, _, _, _)
DigitsToInt(s, i, j, acc) ==
    IF i > j THEN acc ELSE DigitsToInt(s, i + 1, j, 10 * acc + DigitValue(s[i]))

\* NUMBER_RE = (-?(?:0|[1-9]\d*))(\.\d+)?([eE][-+]?\d+)? matched at i:
\* <<end of the integer part, end of the whole match>>, <<0, 0>> when no match
NumberMatch(s, i) ==
    LET IntEnd(p) == IF p > Len(s) \/ s[p] \notin Digits THEN 0
                     ELSE IF s[p] = "0" THEN p
                     ELSE DigitRunEnd(s, p)
        FracEnd(intEnd) == IF intEnd # 0 /\ intEnd + 2 <= Len(s) /\ s[intEnd + 1] = "."
                              /\ s[intEnd + 2] \in Digits
                           THEN DigitRunEnd(s, intEnd + 2) ELSE intEnd
        ExpStart(fracEnd) == IF fracEnd + 2 <= Len(s) /\ s[fracEnd + 2] \in {"-", "+"}
                             THEN fracEnd + 3 ELSE fracEnd + 2
        ExpEnd(fracEnd, q) == IF fracEnd # 0 /\ fracEnd + 1 <= Len(s)
                                 /\ s[fracEnd + 1] \in {"e", "E"}
                                 /\ q <= Len(s) /\ s[q] \in Digits
                              THEN DigitRunEnd(s, q) ELSE fracEnd
        Groups(intEnd, fracEnd) == IF intEnd = 0 THEN <<0, 0>>
                                   ELSE <<intEnd, ExpEnd(fracEnd, ExpStart(fracEnd))>>
        From(intEnd) == Groups(intEnd, FracEnd(intEnd))
    IN  From(IntEnd(IF i <= Len(s) /\ s[i] = "-" THEN i + 1 ELSE i))

NumberValue(s, i, m) ==
    IF m[2] # m[1] THEN FloatVal(SubSeq(s, i, m[2]))
    ELSE IF s[i] = "-" THEN IntVal(SubSeq(s, i, m[1]), 0 - DigitsToInt(s, i + 1, m[1], 0))
    ELSE IntVal(SubSeq(s, i, m[1]), DigitsToInt(s, i, m[1], 0))

ParseFail == [ok |-> FALSE, val |-> NullVal, pos |-> 0]
ParseOk(v, p) == [ok |-> TRUE, val |-> v, pos |-> p]

\* dict[key] = value: a repeated key keeps its place and takes the last value
RECURSIVE KeyIndex(_, _, _)
KeyIndex(keys, k, i) ==
    IF i > Len(keys) THEN 0 ELSE IF keys[i] = k THEN i ELSE KeyIndex(keys, k, i + 1)

ObjPut(o, k, v) ==
    LET i == KeyIndex(o.keys, k, 1) IN
    IF i = 0 THEN ObjVal(Append(o.keys, k), Append(o.items, v))
    ELSE ObjVal(o.keys, [o.items EXCEPT ![i] = v])

HasKey(o, k) == o.t = "obj" /\ KeyIndex(o.keys, k, 1) # 0
\* dict.get(key, default)
ObjGet(o, k, default) ==
    LET i == KeyIndex(o.keys, k, 1) IN IF i = 0 THEN default ELSE o.items[i]

\* json.scanner.py_make_scanner._scan_once and json.decoder.JSONObject / JSONArray:
\* the value that starts at position i of s, and the position after it
RECURSIVE ParseValue(_, _), ParseMembers(_, _, _), ParseElements(_, _, _)
ParseValue(s, i) ==
    IF i > Len(s) THEN ParseFail
    ELSE IF s[i] = "\"" THEN
        LET String(e) ==
            IF e = 0 THEN ParseFail ELSE ParseOk(StrVal(SubSeq(s, i + 1, e - 1)), e + 1)
        IN String(StringEnd(s, i + 1))
    ELSE IF s[i] = "{" THEN
        LET Object(j) ==
            IF j <= Len(s) /\ s[j] = "}" THEN ParseOk(ObjVal(<< >>, << >>), j + 1)
            ELSE ParseMembers(s, j, ObjVal(<< >>, << >>))
        IN Object(SkipWS(s, i + 1))
    ELSE IF s[i] = "[" THEN
        LET Array(j) ==
            IF j <= Len(s) /\ s[j] = "]" THEN ParseOk(ArrVal(<< >>), j + 1)
            ELSE ParseElements(s, j, << >>)
        IN Array(SkipWS(s, i + 1))
    ELSE IF StartsWithAt(s, i, <<"n", "u", "l", "l">>) THEN ParseOk(LitVal("null"), i + 4)
    ELSE IF StartsWithAt(s, i, <<"t", "r", "u", "e">>) THEN ParseOk(LitVal("true"), i + 4)
    ELSE IF StartsWithAt(s, i, <<"f", "a", "l", "s", "e">>) THEN ParseOk(LitVal("false"), i + 5)
    ELSE LET Number(m) ==
        IF m[1] # 0 THEN ParseOk(NumberValue(s, i, m), m[2] + 1)
        ELSE IF StartsWithAt(s, i, <<"N", "a", "N">>) THEN ParseOk(LitVal("nan"), i + 3)
        ELSE IF StartsWithAt(s, i, <<"I", "n", "f", "i", "n", "i", "t", "y">>)
            THEN ParseOk(LitVal("inf"), i + 8)
        ELSE IF StartsWithAt(s, i, <<"-", "I", "n", "f", "i", "n", "i", "t", "y">>)
            THEN ParseOk(LitVal("ninf"), i + 9)
        ELSE ParseFail
      IN Number(NumberMatch(s, i))

\* the members of an object from the key expected at position j on
ParseMembers(s, j, o) ==
    LET Next(n, o2) ==
            IF n > Len(s) THEN ParseFail
            ELSE IF s[n] = "}" THEN ParseOk(o2, n + 1)
            ELSE IF s[n] = "," THEN ParseMembers(s, SkipWS(s, n + 1), o2)
            ELSE ParseFail
        Value(e, r) ==
            IF ~r.ok THEN ParseFail
            ELSE Next(SkipWS(s, r.pos), ObjPut(o, SubSeq(s, j + 1, e - 1), r.val))
        Colon(e, c) ==
            IF c > Len(s) \/ s[c] # ":" THEN ParseFail
            ELSE Value(e, ParseValue(s, SkipWS(s, c + 1)))
        Key(e) == IF e = 0 THEN ParseFail ELSE Colon(e, SkipWS(s, e + 1))
    IN  IF j > Len(s) \/ s[j] # "\"" THEN ParseFail ELSE Key(StringEnd(s, j + 1))

\* the elements of an array from the value expected at position j on
ParseElements(s, j, items) ==
    LET Next(r, n) ==
            IF n > Len(s) THEN ParseFail
            ELSE IF s[n] = "]" THEN ParseOk(ArrVal(Append(items, r.val)), n + 1)
            ELSE IF s[n] = "," THEN ParseElements(s, SkipWS(s, n + 1), Append(items, r.val))
            ELSE ParseFail
        Value(r) == IF ~r.ok THEN ParseFail ELSE Next(r, SkipWS(s, r.pos))
    IN  Value(ParseValue(s, j))

\* json.loads(s): one value between optional whitespace, nothing after it
JsonLoads(s) ==
    LET Whole(r) == IF r.ok /\ SkipWS(s, r.pos) = Len(s) + 1 THEN r ELSE ParseFail
    IN  Whole(ParseValue(s, SkipWS(s, 1)))

\* json.dumps(v, indent=2): every member and element on a line of its own, indented
\* by two spaces a level. ok is FALSE for the values this serialiser does not cover:
\* a string that needs an escape, a float.
JsonDumps(v) ==
    LET Quoted(s) ==
            [ok |-> \A k \in 1..Len(s) : s[k] \notin ControlChars \cup {"\"", "\\"},
             text |-> <<"\"">> \o s \o <<"\"">>]
        RECURSIVE IntText(_)
        IntText(n) ==
            IF n < 0 THEN <<"-">> \o IntText(0 - n)
            ELSE (IF n < 10 THEN << >> ELSE IntText(n \div 10))
                     \o <<(CHOOSE c \in Digits : DigitValue(c) = n % 10)>>
        Literal(t) ==
            CASE t = "true" -> <<"t", "r", "u", "e">>
              [] t = "false" -> <<"f", "a", "l", "s", "e">>
              [] t = "nan" -> <<"N", "a", "N">>
              [] t = "inf" -> <<"I", "n", "f", "i", "n", "i", "t", "y">>
              [] t = "ninf" -> <<"-", "I", "n", "f", "i", "n", "i", "t", "y">>
              [] OTHER -> <<"n", "u", "l", "l">>
        NewLine(level) == <<"\n">> \o [k \in 1..(2 * level) |-> " "]
        RECURSIVE Joined(_, _, _)
        Joined(parts, i, level) ==
            IF i > Len(parts) THEN [ok |-> TRUE, text |-> << >>]
            ELSE LET Rest(r) ==
                         [ok |-> parts[i].ok /\ r.ok,
                          text |-> (IF i = 1 THEN << >> ELSE <<",">>) \o NewLine(level)
                                       \o parts[i].text \o r.text] IN
                 Rest(Joined(parts, i + 1, level))
        Member(k, x) == [ok |-> k.ok /\ x.ok, text |-> k.text \o <<":", " ">> \o x.text]
        Enclosed(open, j, close, level) ==
            [ok |-> j.ok,
             text |-> <<open>> \o j.text
                          \o (IF j.text = << >> THEN << >> ELSE NewLine(level)) \o <<close>>]
        RECURSIVE Dump(_, _)
        Dump(x, level) ==
            CASE x.t = "str" -> Quoted(x.s)
              [] x.t = "num" -> [ok |-> TRUE, text |-> IntText(x.n)]
              [] x.t = "float" -> [ok |-> FALSE, text |-> x.s]
              [] x.t = "arr" ->
                   Enclosed("[", Joined([i \in 1..Len(x.items) |->
                                            Dump(x.items[i], level + 1)], 1, level + 1),
                            "]", level)
              [] x.t = "obj" ->
                   Enclosed("{", Joined([i \in 1..Len(x.keys) |->
                                            Member(Quoted(x.keys[i]),
                                                   Dump(x.items[i], level + 1))],
                                        1, level + 1),
                            "}", level)
              [] OTHER -> [ok |-> x.t # "pending", text |-> Literal(x.t)]
    IN  Dump(v, 0)

(***************************************************************************)
(* Text operations of the Python code: str.find, str.count, str.split,     *)
(* str.strip, and the regular expressions of PitchAgent.                   *)
(***************************************************************************)
\* \s of re, and the characters str.strip() removes
RegexWS == {" ", "\t", "\n", "\r", "\f"}

\* s.find(c) from position i on, s.rfind(c) up to position i (0: not found)
FindChar(s, c, i) == MinOf({j \in i..Len(s) : s[j] = c})
RFindChar(s, c, i) == MaxOf({j \in 1..i : s[j] = c})

\* s.count(c)
CountChar(s, c) == Cardinality({j \in 1..Len(s) : s[j] = c})

\* c * n
Repeat(c, n) == [j \in 1..n |-> c]

SkipRegexWS(s, i) == SkipChars(s, i, RegexWS)

\* the last position of s up to i that holds no whitespace (0 when there is none)
LastNonWS(s, i) == MaxOf({j \in 1..i : s[j] \notin RegexWS})

RStrip(s) == SubSeq(s, 1, LastNonWS(s, Len(s)))
Strip(s) == SubSeq(s, SkipRegexWS(s, 1), LastNonWS(s, Len(s)))

\* s.split('\n')
RECURSIVE SplitLines(_, _)
SplitLines(s, i) ==
    LET n == FindChar(s, "\n", i) IN
    IF n = 0 THEN <<SubSeq(s, i, Len(s))>>
    ELSE <<SubSeq(s, i, n - 1)>> \o SplitLines(s, n + 1)

\* '\n'.join(lines)
RECURSIVE JoinLines(_, _)
JoinLines(lines, i) ==
    IF i > Len(lines) THEN << >>
    ELSE IF i = Len(lines) THEN lines[i]
    ELSE lines[i] \o <<"\n">> \o JoinLines(lines, i + 1)

NoMatch == [found |-> FALSE, group |-> << >>]
Match(g) == [found |-> TRUE, group |-> g]

FenceOpen == <<Backtick, Backtick, Backtick, "j", "s", "o", "n">>
FenceEnd == <<Backtick, Backtick, Backtick>>

\* the first '}' at or after j that \s*``` follows (0 when there is none): .*?\}\s*```
FenceClose(s, j) ==
    MinOf({k \in j..Len(s) :
            s[k] = "}" /\ StartsWithAt(s, SkipRegexWS(s, k + 1), FenceEnd)})

\* where the group of the fence pattern ends when the pattern is tried at position i
\* (0: no match there): ```json, \s*, then '{' ... the first '}' that \s*``` follows
FenceGroupEnd(s, i) ==
    LET q == SkipRegexWS(s, i + Len(FenceOpen)) IN
    IF StartsWithAt(s, i, FenceOpen) /\ q <= Len(s) /\ s[q] = "{"
    THEN FenceClose(s, q + 1) ELSE 0

\* re.search(r'```json\s*(\{.*?\})\s*```', pitch_text, re.DOTALL): the leftmost match
FenceSearch(s) ==
    LET i == MinOf({k \in 1..Len(s) : FenceGroupEnd(s, k) # 0}) IN
    IF i = 0 THEN NoMatch
    ELSE Match(SubSeq(s, SkipRegexWS(s, i + Len(FenceOpen)), FenceGroupEnd(s, i)))

\* re.search(r'(\{.*\})', pitch_text, re.DOTALL): first '{' to last '}'
BraceSearch(s) ==
    LET a == FindChar(s, "{", 1)
        b == RFindChar(s, "}", Len(s)) IN
    IF a # 0 /\ b > a THEN Match(SubSeq(s, a, b)) ELSE NoMatch

\* the candidate generate_pitch hands to json.loads
PitchTextClean(pitch_text) ==
    LET match == FenceSearch(pitch_text) IN
    IF match.found THEN match.group
    ELSE LET json_match == BraceSearch(pitch_text) IN
         IF json_match.found THEN json_match.group ELSE pitch_text

\* one line of the line scan of _fix_incomplete_json
EndsWithOneOf(t, cs) == Len(t) > 0 /\ t[Len(t)] \in cs
EndsWithQuoteComma(t) == Len(t) > 1 /\ t[Len(t)] = "," /\ t[Len(t) - 1] = "\""

FixLine(line) ==
    LET t == Strip(line) IN
    IF EndsWithOneOf(t, {"\""}) /\ ~EndsWithQuoteComma(t) THEN RStrip(line) \o <<"\"", ",">>
    ELSE IF Len(t) > 0 /\ ~EndsWithOneOf(t, {"\"", ",", "{", "}", "]"})
    THEN RStrip(line) \o <<"\"", ",">>
    ELSE line

RECURSIVE FixLines(_, _)
FixLines(lines, i) ==
    IF i > Len(lines) THEN << >> ELSE <<FixLine(lines[i])>> \o FixLines(lines, i + 1)

\* json_text after the brace balancing and the line scan of _fix_incomplete_json
FixedText(json_text) ==
    LET open_braces == CountChar(json_text, "{")
        close_braces == CountChar(json_text, "}")
        balanced == IF open_braces > close_braces
                    THEN json_text \o Repeat("}", open_braces - close_braces)
                    ELSE json_text
    IN  JoinLines(FixLines(SplitLines(balanced, 1), 1), 1)

\* where the group of "<key>"\s*:\s*"([^"]*) starts when the pattern is tried at
\* position i (0: no match there)
FieldGroupStart(s, key, i) ==
    LET c == SkipRegexWS(s, i + Len(key) + 2)
        d == SkipRegexWS(s, c + 1) IN
    IF /\ StartsWithAt(s, i, <<"\"">> \o key \o <<"\"">>)
       /\ c <= Len(s) /\ s[c] = ":"
       /\ d <= Len(s) /\ s[d] = "\""
    THEN d + 1 ELSE 0

FieldSearchMutant(s, key) ==
    LET i == MaxOf({k \in 1..Len(s) : FieldGroupStart(s, key, k) # 0}) IN
    IF i = 0 THEN NoMatch
    ELSE Match(SubSeq(s, FieldGroupStart(s, key, i), Len(s)))

\* re.search(r'"<key>"\s*:\s*"([^"]*)', text): the leftmost match; the group runs to
\* the next quote or to the end of the text
FieldSearch(s, key) ==
    LET i == MinOf({k \in 1..Len(s) : FieldGroupStart(s, key, k) # 0}) IN
    IF i = 0 THEN NoMatch
    ELSE LET g == FieldGroupStart(s, key, i)
             e == FindChar(s, "\"", g) IN
         Match(SubSeq(s, g, IF e = 0 THEN Len(s) ELSE e - 1))

\* the keys of a pitch record
PitchKey ==
      \* 'problem'
    [ problem |-> <<"p", "r", "o", "b", "l", "e", "m">>,
      \* 'solution'
      solution |-> <<"s", "o", "l", "u", "t", "i", "o", "n">>,
      \* 'market'
      market |-> <<"m", "a", "r", "k", "e", "t">>,
      \* 'business_model'
      business_model |-> <<"b", "u", "s", "i", "n", "e", "s", "s", "_", "m", "o", "d", "e",
          "l">> ]

PitchKeys == <<PitchKey.problem, PitchKey.solution, PitchKey.market, PitchKey.business_model>>

\* the default values of generate_pitch and _extract_partial_data
PitchDefault ==
      \* 'Problem for '
    [ problem_for |-> <<"P", "r", "o", "b", "l", "e", "m", " ", "f", "o", "r", " ">>,
      \* 'Solution for '
      solution_for |-> <<"S", "o", "l", "u", "t", "i", "o", "n", " ", "f", "o", "r", " ">>,
      \* 'AI in Stock Exchange'
      topic |-> <<"A", "I", " ", "i", "n", " ", "S", "t", "o", "c", "k", " ", "E", "x", "c",
          "h", "a", "n", "g", "e">>,
      \* 'Market size and opportunity'
      market |-> <<"M", "a", "r", "k", "e", "t", " ", "s", "i", "z", "e", " ", "a", "n",
          "d", " ", "o", "p", "p", "o", "r", "t", "u", "n", "i", "t", "y">>,
      \* 'Business model details'
      business_model |-> <<"B", "u", "s", "i", "n", "e", "s", "s", " ", "m", "o", "d", "e",
          "l", " ", "d", "e", "t", "a", "i", "l", "s">>,
      \* '{}'
      content |-> <<"{", "}">> ]

\* the record of the except clause of generate_pitch, for the caller's topic
TopicDefaultRecord(topic) ==
    ObjVal(PitchKeys, <<StrVal(PitchDefault.problem_for \o topic),
                        StrVal(PitchDefault.solution_for \o topic),
                        StrVal(PitchDefault.market), StrVal(PitchDefault.business_model)>>)

\* the record _extract_partial_data starts from
ScavengeDefaultRecord == TopicDefaultRecord(PitchDefault.topic)

\* _extract_partial_data(text)
RECURSIVE ScavengeFields(_, _, _)
ScavengeFields(text, result, i) ==
    IF i > Len(PitchKeys) THEN result
    ELSE LET m == FieldSearch(text, PitchKeys[i]) IN
         ScavengeFields(text,
                        IF m.found THEN ObjPut(result, PitchKeys[i], StrVal(m.group))
                        ELSE result,
                        i + 1)

ExtractPartialData(text) == ScavengeFields(text, ScavengeDefaultRecord, 1)

(***************************************************************************)
(* PitchAgent.generate_pitch: the remote outcomes, the response texts and  *)
(* the steps of one call.                                                  *)
(***************************************************************************)
\* response bodies of the LLM for generate_pitch
PitchBody ==
      \* '{"problem": "P", "solution": "S", "market": "M", "business_model": "B"}'
    [ full |-> <<"{", "\"", "p", "r", "o", "b", "l", "e", "m", "\"", ":", " ", "\"", "P",
          "\"", ",", " ", "\"", "s", "o", "l", "u", "t", "i", "o", "n", "\"", ":", " ",
          "\"", "S", "\"", ",", " ", "\"", "m", "a", "r", "k", "e", "t", "\"", ":", " ",
          "\"", "M", "\"", ",", " ", "\"", "b", "u", "s", "i", "n", "e", "s", "s", "_", "m",
          "o", "d", "e", "l", "\"", ":", " ", "\"", "B", "\"", "}">>,
      \* '{\n "problem": "P",\n "solution": "S"\n}'
      multi_line |-> <<"{", "\n", " ", "\"", "p", "r", "o", "b", "l", "e", "m", "\"", ":",
          " ", "\"", "P", "\"", ",", "\n", " ", "\"", "s", "o", "l", "u", "t", "i", "o",
          "n", "\"", ":", " ", "\"", "S", "\"", "\n", "}">>,
      \* '{"problem": "P"}'
      partial |-> <<"{", "\"", "p", "r", "o", "b", "l", "e", "m", "\"", ":", " ", "\"", "P",
          "\"", "}">>,
      \* '"problem": "P", "solution": "S"'
      no_braces |-> <<"\"", "p", "r", "o", "b", "l", "e", "m", "\"", ":", " ", "\"", "P",
          "\"", ",", " ", "\"", "s", "o", "l", "u", "t", "i", "o", "n", "\"", ":", " ",
          "\"", "S", "\"">>,
      \* '"problem": "P\nQ", "solution": "S"'
      line_break |-> <<"\"", "p", "r", "o", "b", "l", "e", "m", "\"", ":", " ", "\"", "P",
          "\n", "Q", "\"", ",", " ", "\"", "s", "o", "l", "u", "t", "i", "o", "n", "\"",
          ":", " ", "\"", "S", "\"">>,
      \* '{"problem": [\n"P"]}'
      list_value |-> <<"{", "\"", "p", "r", "o", "b", "l", "e", "m", "\"", ":", " ", "[", "\n", "\"", "P", "\"", "]", "}">>,
      \* '42'
      number |-> <<"4", "2">>,
      \* '["P"]'
      array |-> <<"[", "\"", "P", "\"", "]">>,
      \* 'no json'
      prose |-> <<"n", "o", " ", "j", "s", "o", "n">> ]

\* what the LLM may put around a body
PitchWrap ==
      \* 'Here is the result:\n'
    [ prose_before |-> <<"H", "e", "r", "e", " ", "i", "s", " ", "t", "h", "e", " ", "r",
          "e", "s", "u", "l", "t", ":", "\n">>,
      \* '```json\n'
      fence_before |-> <<Backtick, Backtick, Backtick, "j", "s", "o", "n", "\n">>,
      \* '\n```'
      fence_after |-> <<"\n", Backtick, Backtick, Backtick>>,
      \* ' Thanks'
      prose_after |-> <<" ", "T", "h", "a", "n", "k", "s">> ]

\* 'AI'
TopicAI ==
    <<"A", "I">>

\* how many characters the token limit may cut off the end of a response body
MaxCut == 45

PitchBodies == {PitchBody[f] : f \in DOMAIN PitchBody}

\* The response texts: a body, whole (with what follows it) or cut off, after a prefix.
PitchTexts ==
    { pre \o body \o suf :
        pre \in {<< >>, PitchWrap.prose_before, PitchWrap.fence_before},
        body \in PitchBodies,
        suf \in {<< >>, PitchWrap.fence_after, PitchWrap.prose_after} }
        \cup
    UNION { { pre \o SubSeq(body, 1, k) :
                pre \in {<< >>, PitchWrap.prose_before, PitchWrap.fence_before},
                k \in Max(0, Len(body) - MaxCut)..(Len(body) - 1) } :
            body \in PitchBodies }

PitchTopics == {TopicAI, PitchDefault.topic}

\* What requests.post, raise_for_status, response.json() and the .get chain give:
\*   raise         requests.post or raise_for_status raises (status_code of the reply,
\*                 NoStatus for a connection error)
\*   bad_body      response.json() raises
\*   no_choices    "choices" is an empty list: [0] raises IndexError
\*   null_content  "content" is null: re.search raises TypeError
\*   no_content    no "content" key: the default '{}'
\*   content       the text of the reply
PitchRemoteOutcomes ==
    { [kind |-> "raise", status_code |-> st, content |-> << >>] :
        st \in {NoStatus, 401, RateLimitStatus, 500} }
        \cup { [kind |-> k, status_code |-> 200, content |-> << >>] :
                k \in {"bad_body", "no_choices", "null_content", "no_content"} }
        \cup { [kind |-> "content", status_code |-> 200, content |-> t] : t \in PitchTexts }

NoJson == JsonValue("pending", << >>, 0, << >>, << >>)

NewPitch(topic, remote) ==
    [ pc |-> "post",          \* post | clean | loads | fix | scavenge | except | done | idle
      topic |-> topic,
      remote |-> remote,
      pitch_text |-> << >>,
      pitch_text_clean |-> << >>,
      json_text |-> << >>,    \* json_text of _fix_incomplete_json after the line scan
      stages |-> << >>,       \* the recovery stages run so far
      via |-> "none",         \* the stage that produced the result
      result |-> NoJson,      \* what generate_pitch returns
      previous |-> NoJson ]   \* the record whose serialisation this call's response is

IdlePitch ==
    [NewPitch(TopicAI, [kind |-> "no_content", status_code |-> 200, content |-> << >>])
        EXCEPT !.pc = "idle"]

\* requests.post ... .get('content', '{}')
PitchPost(p) ==
    IF p.remote.kind = "content"
    THEN [p EXCEPT !.pc = "clean", !.pitch_text = p.remote.content]
    ELSE IF p.remote.kind = "no_content"
    THEN [p EXCEPT !.pc = "clean", !.pitch_text = PitchDefault.content]
    ELSE [p EXCEPT !.pc = "except"]

\* the two re.search calls that choose pitch_text_clean
PitchClean(p) ==
    [p EXCEPT !.pc = "loads", !.pitch_text_clean = PitchTextClean(p.pitch_text)]

\* try: pitch_json = json.loads(pitch_text_clean)
PitchLoadsMutant(p) ==
    LET r == JsonLoads(p.pitch_text_clean) IN
    [p EXCEPT !.pc = "fix", !.stages = Append(@, "strict")]
PitchLoads(p) ==
    LET r == JsonLoads(p.pitch_text_clean) IN
    IF r.ok
    THEN [p EXCEPT !.pc = "done", !.stages = Append(@, "strict"),
                   !.via = "strict", !.result = r.val]
    ELSE [p EXCEPT !.pc = "fix", !.stages = Append(@, "strict")]

\* _fix_incomplete_json up to its json.loads
PitchFix(p) ==
    LET fixed == FixedText(p.pitch_text_clean)
        r == JsonLoads(fixed) IN
    IF r.ok
    THEN [p EXCEPT !.pc = "done", !.stages = Append(@, "repair"), !.json_text = fixed,
                   !.via = "repair", !.result = r.val]
    ELSE [p EXCEPT !.pc = "scavenge", !.stages = Append(@, "repair"), !.json_text = fixed]

\* the except clause of _fix_incomplete_json: _extract_partial_data(json_text)
PitchScavenge(p) ==
    [p EXCEPT !.pc = "done", !.stages = Append(@, "scavenge"),
              !.via = "scavenge", !.result = ExtractPartialData(p.json_text)]

\* the except clause of generate_pitch
PitchExceptMutant(p) ==
    [p EXCEPT !.pc = "done", !.via = "raise"]
PitchExcept(p) ==
    [p EXCEPT !.pc = "done", !.via = "default", !.result = TopicDefaultRecord(p.topic)]

(***************************************************************************)
(* MistralAnalysisAgent.generate_comprehensive_analysis: the field names,  *)
(* the defaults of the record, the response texts and the steps of a call. *)
(***************************************************************************)
\* the second arguments of mistral_analysis.get in complete_analysis
Default ==
      \* mistral_analysis.get("overallScore", 85)
    [ overallScore |-> IntVal(<<"8", "5">>, 85),
      \* the default of categoryScores
      categoryScores |-> ObjVal(<<<<"m", "a", "r", "k", "e", "t", "O", "p", "p", "o", "r",
          "t", "u", "n", "i", "t", "y">>, <<"b", "u", "s", "i", "n", "e", "s", "s", "M",
          "o", "d", "e", "l">>, <<"p", "r", "e", "s", "e", "n", "t", "a", "t", "i", "o",
          "n">>, <<"f", "i", "n", "a", "n", "c", "i", "a", "l", "V", "i", "a", "b", "i",
          "l", "i", "t", "y">>, <<"i", "n", "n", "o", "v", "a", "t", "i", "o", "n">>>>,
          <<IntVal(<<"8", "5">>, 85), IntVal(<<"8", "0">>, 80), IntVal(<<"8", "5">>, 85),
          IntVal(<<"8", "0">>, 80), IntVal(<<"8", "5">>, 85)>>),
      \* the default of feedback
      feedback |-> ObjVal(<<<<"s", "t", "r", "e", "n", "g", "t", "h", "s">>, <<"i", "m",
          "p", "r", "o", "v", "e", "m", "e", "n", "t", "s">>, <<"r", "e", "c", "o", "m",
          "m", "e", "n", "d", "a", "t", "i", "o", "n", "s">>>>, <<ArrVal(<<StrVal(<<"G",
          "o", "o", "d", " ", "o", "v", "e", "r", "a", "l", "l", " ", "p", "i", "t", "c",
          "h", " ", "s", "t", "r", "u", "c", "t", "u", "r", "e">>)>>),
          ArrVal(<<StrVal(<<"C", "o", "u", "l", "d", " ", "u", "s", "e", " ", "m", "o", "r",
          "e", " ", "s", "p", "e", "c", "i", "f", "i", "c", " ", "d", "a", "t", "a">>)>>),
          ArrVal(<<StrVal(<<"A", "d", "d", " ", "m", "o", "r", "e", " ", "m", "a", "r", "k",
          "e", "t", " ", "r", "e", "s", "e", "a", "r", "c", "h">>)>>)>>),
      \* the default of response
      response |-> StrVal(<<"T", "h", "i", "s", " ", "p", "i", "t", "c", "h", " ", "d", "e",
          "m", "o", "n", "s", "t", "r", "a", "t", "e", "s", " ", "s", "t", "r", "o", "n",
          "g", " ", "p", "o", "t", "e", "n", "t", "i", "a", "l", " ", "w", "i", "t", "h",
          " ", "c", "l", "e", "a", "r", " ", "v", "a", "l", "u", "e", " ", "p", "r", "o",
          "p", "o", "s", "i", "t", "i", "o", "n", ".", " ", "C", "o", "n", "s", "i", "d",
          "e", "r", " ", "e", "m", "p", "h", "a", "s", "i", "z", "i", "n", "g", " ", "t",
          "h", "e", " ", "c", "o", "m", "p", "e", "t", "i", "t", "i", "v", "e", " ", "a",
          "d", "v", "a", "n", "t", "a", "g", "e", "s", " ", "a", "n", "d", " ", "m", "a",
          "r", "k", "e", "t", " ", "t", "i", "m", "i", "n", "g", " ", "m", "o", "r", "e",
          " ", "p", "r", "o", "m", "i", "n", "e", "n", "t", "l", "y", ".", " ", "T", "h",
          "e", " ", "b", "u", "s", "i", "n", "e", "s", "s", " ", "m", "o", "d", "e", "l",
          " ", "a", "p", "p", "e", "a", "r", "s", " ", "s", "o", "l", "i", "d", " ", "b",
          "u", "t", " ", "c", "o", "u", "l", "d", " ", "b", "e", "n", "e", "f", "i", "t",
          " ", "f", "r", "o", "m", " ", "m", "o", "r", "e", " ", "d", "e", "t", "a", "i",
          "l", "e", "d", " ", "f", "i", "n", "a", "n", "c", "i", "a", "l", " ", "p", "r",
          "o", "j", "e", "c", "t", "i", "o", "n", "s", " ", "a", "n", "d", " ", "c", "u",
          "s", "t", "o", "m", "e", "r", " ", "a", "c", "q", "u", "i", "s", "i", "t", "i",
          "o", "n", " ", "s", "t", "r", "a", "t", "e", "g", "y", ".">>),
      \* the default of keynotes
      keynotes |-> ArrVal(<<>>),
      \* the default of marketAnalysis
      marketAnalysis |-> ObjVal(<<<<"s", "i", "z", "e">>, <<"g", "r", "o", "w", "t", "h">>,
          <<"c", "o", "m", "p", "e", "t", "i", "t", "i", "o", "n">>, <<"t", "r", "e", "n",
          "d", "s">>>>, <<StrVal(<<"T", "B", "D">>), StrVal(<<"T", "B", "D">>),
          StrVal(<<"T", "B", "D">>), ArrVal(<<StrVal(<<"I", "n", "d", "u", "s", "t", "r",
          "y", " ", "g", "r", "o", "w", "t", "h">>)>>)>>),
      \* the default of nftEligible
      nftEligible |-> LitVal("true") ]

\* the values of an analysis record that do not come from the response
Fixed ==
      \* agentsUsed
    [ agentsUsed |-> ArrVal(<<StrVal(<<"P", "i", "t", "c", "h", " ", "A", "n", "a", "l",
          "y", "s", "i", "s", " ", "A", "g", "e", "n", "t">>), StrVal(<<"M", "i", "s", "t",
          "r", "a", "l", " ", "A", "n", "a", "l", "y", "s", "i", "s", " ", "A", "g", "e",
          "n", "t">>), StrVal(<<"M", "a", "r", "k", "e", "t", " ", "R", "e", "s", "e", "a",
          "r", "c", "h", " ", "A", "g", "e", "n", "t">>), StrVal(<<"F", "i", "n", "a", "n",
          "c", "i", "a", "l", " ", "M", "o", "d", "e", "l", "i", "n", "g", " ", "A", "g",
          "e", "n", "t">>), StrVal(<<"P", "r", "e", "s", "e", "n", "t", "a", "t", "i", "o",
          "n", " ", "E", "n", "h", "a", "n", "c", "e", "m", "e", "n", "t", " ", "A", "g",
          "e", "n", "t">>)>>),
      \* the suggestions of _generate_voice_analysis
      suggestions |-> ArrVal(<<StrVal(<<"M", "a", "i", "n", "t", "a", "i", "n", " ", "c",
          "o", "n", "s", "i", "s", "t", "e", "n", "t", " ", "s", "p", "e", "a", "k", "i",
          "n", "g", " ", "p", "a", "c", "e">>), StrVal(<<"A", "d", "d", " ", "m", "o", "r",
          "e", " ", "v", "o", "c", "a", "l", " ", "v", "a", "r", "i", "e", "t", "y", " ",
          "f", "o", "r", " ", "e", "m", "p", "h", "a", "s", "i", "s">>), StrVal(<<"P", "r",
          "a", "c", "t", "i", "c", "e", " ", "c", "l", "e", "a", "r", " ", "p", "r", "o",
          "n", "u", "n", "c", "i", "a", "t", "i", "o", "n", " ", "o", "f", " ", "t", "e",
          "c", "h", "n", "i", "c", "a", "l", " ", "t", "e", "r", "m", "s">>)>>),
      \* str(uuid.uuid4()): a fresh identifier, not taken from the response
      id |-> StrVal(<<"u", "u", "i", "d", "4">>),
      \* pitch_data['id'] when the caller gives one
      given_pitch_id |-> StrVal(<<"p", "1">>),
      \* f"pitch_{int(datetime.now().timestamp())}"
      timestamp_pitch_id |-> StrVal(<<"p", "i", "t", "c", "h", "_", "1", "7", "0", "0", "0",
          "0", "0", "0", "0", "0">>),
      \* datetime.now().isoformat()
      createdAt |-> StrVal(<<"2", "0", "2", "5", "-", "0", "1", "-", "0", "1", "T", "0",
          "0", ":", "0", "0", ":", "0", "0">>),
      \* the path of the narration of the response
      audio_path |-> StrVal(<<"t", "e", "m", "p", "_", "u", "p", "l", "o", "a", "d", "s",
          "/", "a", "i", "_", "r", "e", "s", "p", "o", "n", "s", "e", "_", "u", "u", "i",
          "d", "4", ".", "m", "p", "3">>) ]

\* the keys of an analysis record, of pitch_data and of the voice analysis
Key ==
      \* 'id'
    [ id |-> <<"i", "d">>,
      \* 'pitchId'
      pitchId |-> <<"p", "i", "t", "c", "h", "I", "d">>,
      \* 'overallScore'
      overallScore |-> <<"o", "v", "e", "r", "a", "l", "l", "S", "c", "o", "r", "e">>,
      \* 'categoryScores'
      categoryScores |-> <<"c", "a", "t", "e", "g", "o", "r", "y", "S", "c", "o", "r", "e",
          "s">>,
      \* 'feedback'
      feedback |-> <<"f", "e", "e", "d", "b", "a", "c", "k">>,
      \* 'response'
      response |-> <<"r", "e", "s", "p", "o", "n", "s", "e">>,
      \* 'keynotes'
      keynotes |-> <<"k", "e", "y", "n", "o", "t", "e", "s">>,
      \* 'marketAnalysis'
      marketAnalysis |-> <<"m", "a", "r", "k", "e", "t", "A", "n", "a", "l", "y", "s", "i",
          "s">>,
      \* 'voiceAnalysis'
      voiceAnalysis |-> <<"v", "o", "i", "c", "e", "A", "n", "a", "l", "y", "s", "i", "s">>,
      \* 'nftEligible'
      nftEligible |-> <<"n", "f", "t", "E", "l", "i", "g", "i", "b", "l", "e">>,
      \* 'createdAt'
      createdAt |-> <<"c", "r", "e", "a", "t", "e", "d", "A", "t">>,
      \* 'agentsUsed'
      agentsUsed |-> <<"a", "g", "e", "n", "t", "s", "U", "s", "e", "d">>,
      \* 'pitchData'
      pitchData |-> <<"p", "i", "t", "c", "h", "D", "a", "t", "a">>,
      \* 'responseAudioPath'
      responseAudioPath |-> <<"r", "e", "s", "p", "o", "n", "s", "e", "A", "u", "d", "i",
          "o", "P", "a", "t", "h">>,
      \* 'pitchType'
      pitchType |-> <<"p", "i", "t", "c", "h", "T", "y", "p", "e">>,
      \* 'clarity'
      clarity |-> <<"c", "l", "a", "r", "i", "t", "y">>,
      \* 'pace'
      pace |-> <<"p", "a", "c", "e">>,
      \* 'confidence'
      confidence |-> <<"c", "o", "n", "f", "i", "d", "e", "n", "c", "e">>,
      \* 'suggestions'
      suggestions |-> <<"s", "u", "g", "g", "e", "s", "t", "i", "o", "n", "s">> ]

\* the values of pitchType
PitchTypeWord ==
      \* 'text'
    [ text |-> <<"t", "e", "x", "t">>,
      \* 'audio'
      audio |-> <<"a", "u", "d", "i", "o">>,
      \* 'video'
      video |-> <<"v", "i", "d", "e", "o">>,
      \* 'image': a value the method does not know
      image |-> <<"i", "m", "a", "g", "e">> ]

\* response bodies of the LLM for the analysis
MistralBody ==
      \* '{"overallScore": 92, "categoryScores": {"innovation": 90}, "feedback": {"strengths":
      \* ["s"]}, "response": "R", "keynotes": ["k"], "marketAnalysis": {"size": "1B"},
      \* "nftEligible": false}'
    [ full |-> <<"{", "\"", "o", "v", "e", "r", "a", "l", "l", "S", "c", "o", "r", "e",
          "\"", ":", " ", "9", "2", ",", " ", "\"", "c", "a", "t", "e", "g", "o", "r", "y",
          "S", "c", "o", "r", "e", "s", "\"", ":", " ", "{", "\"", "i", "n", "n", "o", "v",
          "a", "t", "i", "o", "n", "\"", ":", " ", "9", "0", "}", ",", " ", "\"", "f", "e",
          "e", "d", "b", "a", "c", "k", "\"", ":", " ", "{", "\"", "s", "t", "r", "e", "n",
          "g", "t", "h", "s", "\"", ":", " ", "[", "\"", "s", "\"", "]", "}", ",", " ",
          "\"", "r", "e", "s", "p", "o", "n", "s", "e", "\"", ":", " ", "\"", "R", "\"",
          ",", " ", "\"", "k", "e", "y", "n", "o", "t", "e", "s", "\"", ":", " ", "[", "\"",
          "k", "\"", "]", ",", " ", "\"", "m", "a", "r", "k", "e", "t", "A", "n", "a", "l",
          "y", "s", "i", "s", "\"", ":", " ", "{", "\"", "s", "i", "z", "e", "\"", ":", " ",
          "\"", "1", "B", "\"", "}", ",", " ", "\"", "n", "f", "t", "E", "l", "i", "g", "i",
          "b", "l", "e", "\"", ":", " ", "f", "a", "l", "s", "e", "}">>,
      \* '{}'
      empty |-> <<"{", "}">>,
      \* '{"overallScore": 65, "keynotes": ["k1", "k2"]}'
      low_score |-> <<"{", "\"", "o", "v", "e", "r", "a", "l", "l", "S", "c", "o", "r", "e",
          "\"", ":", " ", "6", "5", ",", " ", "\"", "k", "e", "y", "n", "o", "t", "e", "s",
          "\"", ":", " ", "[", "\"", "k", "1", "\"", ",", " ", "\"", "k", "2", "\"", "]",
          "}">>,
      \* '{"overallScore": "high", "keynotes": "none", "nftEligible": null}'
      wrong_types |-> <<"{", "\"", "o", "v", "e", "r", "a", "l", "l", "S", "c", "o", "r",
          "e", "\"", ":", " ", "\"", "h", "i", "g", "h", "\"", ",", " ", "\"", "k", "e",
          "y", "n", "o", "t", "e", "s", "\"", ":", " ", "\"", "n", "o", "n", "e", "\"", ",",
          " ", "\"", "n", "f", "t", "E", "l", "i", "g", "i", "b", "l", "e", "\"", ":", " ",
          "n", "u", "l", "l", "}">>,
      \* '{\n\t"overallScore": 88,\n\t"keynotes": ["k",],\n}'
      trailing_comma |-> <<"{", "\n", "\t", "\"", "o", "v", "e", "r", "a", "l", "l", "S",
          "c", "o", "r", "e", "\"", ":", " ", "8", "8", ",", "\n", "\t", "\"", "k", "e",
          "y", "n", "o", "t", "e", "s", "\"", ":", " ", "[", "\"", "k", "\"", ",", "]", ",",
          "\n", "}">>,
      \* '{"response": "a\nb"}'
      newline_in_string |-> <<"{", "\"", "r", "e", "s", "p", "o", "n", "s", "e", "\"", ":",
          " ", "\"", "a", "\n", "b", "\"", "}">>,
      \* '{"response": "x,}"}'
      comma_brace_in_string |-> <<"{", "\"", "r", "e", "s", "p", "o", "n", "s", "e", "\"",
          ":", " ", "\"", "x", ",", "}", "\"", "}">>,
      \* '{"response": "x,,}"}'
      commas_brace_in_string |-> <<"{", "\"", "r", "e", "s", "p", "o", "n", "s", "e", "\"",
          ":", " ", "\"", "x", ",", ",", "}", "\"", "}">>,
      \* '42'
      number |-> <<"4", "2">>,
      \* '[1]'
      array |-> <<"[", "1", "]">>,
      \* 'null'
      null |-> <<"n", "u", "l", "l">>,
      \* 'I cannot analyze this'
      prose |-> <<"I", " ", "c", "a", "n", "n", "o", "t", " ", "a", "n", "a", "l", "y", "z",
          "e", " ", "t", "h", "i", "s">> ]

\* what the LLM may put around a body
MistralWrap ==
      \* 'Here is the analysis: '
    [ prose_before |-> <<"H", "e", "r", "e", " ", "i", "s", " ", "t", "h", "e", " ", "a",
          "n", "a", "l", "y", "s", "i", "s", ":", " ">>,
      \* '\nHope {this} helps'
      prose_after |-> <<"\n", "H", "o", "p", "e", " ", "{", "t", "h", "i", "s", "}", " ",
          "h", "e", "l", "p", "s">> ]

MistralBodies == {MistralBody[f] : f \in DOMAIN MistralBody}

\* The response texts: a body, whole (with what follows it) or cut off, after a prefix.
MistralTexts ==
    { pre \o body \o suf :
        pre \in {<< >>, MistralWrap.prose_before, PitchWrap.fence_before},
        body \in MistralBodies,
        suf \in {<< >>, PitchWrap.fence_after, MistralWrap.prose_after} }
        \cup
    UNION { { pre \o SubSeq(body, 1, k) :
                pre \in {<< >>, MistralWrap.prose_before},
                k \in Max(0, Len(body) - MaxCut)..(Len(body) - 1) } :
            body \in MistralBodies }

\* pitch_data: the keys the method reads.  pitchType "absent": the key is missing.
PitchData ==
    { [pitchType |-> "text", has_id |-> TRUE],
      [pitchType |-> "audio", has_id |-> FALSE],
      [pitchType |-> "video", has_id |-> TRUE],
      [pitchType |-> "image", has_id |-> TRUE],
      [pitchType |-> "absent", has_id |-> FALSE] }

\* pitch_data as the pitchData field of the record
PitchDataValue(d) ==
    LET withType == IF d.pitchType = "absent" THEN ObjVal(<< >>, << >>)
                    ELSE ObjVal(<<Key.pitchType>>,
                                <<StrVal(CASE d.pitchType = "text" -> PitchTypeWord.text
                                           [] d.pitchType = "audio" -> PitchTypeWord.audio
                                           [] d.pitchType = "image" -> PitchTypeWord.image
                                           [] OTHER -> PitchTypeWord.video)>>) IN
    IF d.has_id THEN ObjPut(withType, Key.id, Fixed.given_pitch_id) ELSE withType

\* What self.client.chat.complete gives: it raises (status_code of the reply, NoStatus
\* for a connection error) or answers with choices[0].message.content.
MistralRemoteOutcomes ==
    { [kind |-> "raise", status_code |-> st, content |-> << >>] :
        st \in {NoStatus, 401, RateLimitStatus, 500} }
        \cup { [kind |-> "content", status_code |-> 200, content |-> t] : t \in MistralTexts }

\* _generate_voice_analysis draws clarity, pace and confidence at random
VoiceDraws ==
    { [clarity |-> IntVal(<<"7", "5">>, 75), pace |-> IntVal(<<"7", "0">>, 70),
       confidence |-> IntVal(<<"7", "5">>, 75)],
      [clarity |-> IntVal(<<"9", "5">>, 95), pace |-> IntVal(<<"9", "0">>, 90),
       confidence |-> IntVal(<<"9", "5">>, 95)] }

NoAnalysisResult == [success |-> FALSE, keys |-> {}, analysis |-> NoJson, error |-> ""]

NewMistral(d, remote) ==
    [ pc |-> "call",          \* call | parse | fallback | assemble | done | returned | idle
      pitch_data |-> d,
      remote |-> remote,
      analysis_text |-> << >>,
      candidate |-> << >>,            \* the text handed to the json.loads that parsed
      stage |-> "none",               \* first | regex: the stage whose parse succeeded
      mistral_analysis |-> NoJson,
      result |-> NoAnalysisResult,    \* what the method returns
      caller |-> [kind |-> "pending", success |-> FALSE, analysis |-> NoJson],
      previous |-> NoJson ]           \* the record whose serialisation the response is

IdleMistral ==
    [NewMistral([pitchType |-> "text", has_id |-> TRUE],
                [kind |-> "raise", status_code |-> 500, content |-> << >>])
        EXCEPT !.pc = "idle"]

\* the except clause of the method: {"success": False, "error": str(e)}
AnalysisFailure(m, error) ==
    [m EXCEPT !.pc = "done",
              !.result = [success |-> FALSE, keys |-> {"success", "error"},
                          analysis |-> NoJson, error |-> error]]

\* self.client.chat.complete(...) and choices[0].message.content
MistralCall(m) ==
    IF m.remote.kind = "raise"
    THEN AnalysisFailure(m, "Mistral API call failed")
    ELSE [m EXCEPT !.pc = "parse", !.analysis_text = m.remote.content]

\* .replace('\n', ' ').replace('\r', ' ').replace('\t', ' ')
BlankLayout(s) == [i \in 1..Len(s) |-> IF s[i] \in {"\n", "\r", "\t"} THEN " " ELSE s[i]]

\* s.replace(',' + c, c): every comma that c follows is dropped (two matches of the
\* pattern cannot overlap)
Dropped == "dropped"
IsKept(x) == x # Dropped
DropCommaBefore(s, c) ==
    SelectSeq([i \in 1..Len(s) |->
                  IF s[i] = "," /\ i < Len(s) /\ s[i + 1] = c THEN Dropped ELSE s[i]],
              IsKept)

\* the clean-up before each json.loads
CleanJson(s) == DropCommaBefore(DropCommaBefore(BlankLayout(s), "}"), "]")

\* the candidate of the first stage: cleaned_text[json_start:json_end], or all of it
FirstCandidate(analysis_text) ==
    LET cleaned_text == Strip(analysis_text)
        json_start == FindChar(cleaned_text, "{", 1)
        json_end == RFindChar(cleaned_text, "}", Len(cleaned_text)) IN
    IF json_start # 0 /\ json_end + 1 > json_start
    THEN CleanJson(SubSeq(cleaned_text, json_start, json_end))
    ELSE CleanJson(cleaned_text)

\* the first try block: json.loads of the first candidate
MistralParse(m) ==
    LET c == FirstCandidate(m.analysis_text)
        r == JsonLoads(c) IN
    IF r.ok
    THEN [m EXCEPT !.pc = "assemble", !.candidate = c, !.stage = "first",
                   !.mistral_analysis = r.val]
    ELSE [m EXCEPT !.pc = "fallback"]

\* the regex fallback: re.search(r'\{.*\}', analysis_text, re.DOTALL)
MistralFallbackMutant(m) ==
    LET json_match == BraceSearch(m.analysis_text)
        c == CleanJson(json_match.group)
        r == JsonLoads(c) IN
    IF json_match.found /\ r.ok
    THEN [m EXCEPT !.pc = "assemble", !.candidate = c, !.stage = "regex",
                   !.mistral_analysis = r.val]
    ELSE [m EXCEPT !.pc = "assemble", !.mistral_analysis = ObjVal(<< >>, << >>)]
MistralFallback(m) ==
    LET json_match == BraceSearch(m.analysis_text)
        c == CleanJson(json_match.group)
        r == JsonLoads(c) IN
    IF json_match.found /\ r.ok
    THEN [m EXCEPT !.pc = "assemble", !.candidate = c, !.stage = "regex",
                   !.mistral_analysis = r.val]
    ELSE AnalysisFailure(m, "Mistral API did not return valid JSON")

IsAudioVideoMutant(d) == d.pitchType \notin {"text", "absent"}

\* pitch_type in ['audio', 'video']
IsAudioVideo(d) == d.pitchType \in {"audio", "video"}

\* _generate_voice_analysis(pitch_data, pitch_type)
VoiceAnalysis(d, draw) ==
    IF ~IsAudioVideo(d) THEN NullVal
    ELSE ObjVal(<<Key.clarity, Key.pace, Key.confidence, Key.suggestions>>,
                <<draw.clarity, draw.pace, draw.confidence, Fixed.suggestions>>)

\* complete_analysis = {...}
CompleteAnalysisMutant(ma, d, draw) ==
    ObjVal(
        <<Key.id, Key.pitchId, Key.overallScore, Key.categoryScores, Key.feedback, Key.response,
          Key.keynotes, Key.marketAnalysis, Key.voiceAnalysis, Key.nftEligible, Key.createdAt,
          Key.agentsUsed, Key.pitchData>>,
        <<Fixed.id,
          IF d.has_id THEN Fixed.given_pitch_id ELSE Fixed.timestamp_pitch_id,
          ObjGet(ma, Key.overallScore, NullVal),
          ObjGet(ma, Key.categoryScores, Default.categoryScores),
          ObjGet(ma, Key.feedback, Default.feedback),
          ObjGet(ma, Key.response, Default.response),
          IF IsAudioVideo(d) THEN ObjGet(ma, Key.keynotes, Default.keynotes) ELSE Default.keynotes,
          ObjGet(ma, Key.marketAnalysis, Default.marketAnalysis),
          VoiceAnalysis(d, draw),
          ObjGet(ma, Key.nftEligible, Default.nftEligible),
          Fixed.createdAt,
          Fixed.agentsUsed,
          PitchDataValue(d)>>)
CompleteAnalysis(ma, d, draw) ==
    ObjVal(
        <<Key.id, Key.pitchId, Key.overallScore, Key.categoryScores, Key.feedback, Key.response,
          Key.keynotes, Key.marketAnalysis, Key.voiceAnalysis, Key.nftEligible, Key.createdAt,
          Key.agentsUsed, Key.pitchData>>,
        <<Fixed.id,
          IF d.has_id THEN Fixed.given_pitch_id ELSE Fixed.timestamp_pitch_id,
          ObjGet(ma, Key.overallScore, Default.overallScore),
          ObjGet(ma, Key.categoryScores, Default.categoryScores),
          ObjGet(ma, Key.feedback, Default.feedback),
          ObjGet(ma, Key.response, Default.response),
          IF IsAudioVideo(d) THEN ObjGet(ma, Key.keynotes, Default.keynotes) ELSE Default.keynotes,
          ObjGet(ma, Key.marketAnalysis, Default.marketAnalysis),
          VoiceAnalysis(d, draw),
          ObjGet(ma, Key.nftEligible, Default.nftEligible),
          Fixed.createdAt,
          Fixed.agentsUsed,
          PitchDataValue(d)>>)

\* the assembly of the record and the return; mistral_analysis.get raises
\* AttributeError when the parsed value is no object
MistralAssemble(m, draw) ==
    IF m.mistral_analysis.t # "obj"
    THEN AnalysisFailure(m, "object has no attribute 'get'")
    ELSE [m EXCEPT !.pc = "done",
                   !.result = [success |-> TRUE, keys |-> {"success", "analysis"},
                               analysis |-> CompleteAnalysis(m.mistral_analysis,
                                                             m.pitch_data, draw),
                               error |-> ""]]

\* PitchAnalysisAgent.generate_comprehensive_analysis after the Mistral result: voice is
\* "none" (no voice agent), "ok" or "failed" (generate_response_audio)
AnalysisCaller(m, voice) ==
    IF m.result.success
    THEN [m EXCEPT !.pc = "returned",
                   !.caller = [kind |-> "return", success |-> TRUE,
                               analysis |-> IF voice = "ok"
                                            THEN ObjPut(m.result.analysis,
                                                        Key.responseAudioPath, Fixed.audio_path)
                                            ELSE m.result.analysis]]
    ELSE [m EXCEPT !.pc = "returned",
                   !.caller = [kind |-> "raise", success |-> FALSE, analysis |-> NoJson]]

(***************************************************************************)
(* PitchAnalysisAgent.analyze_pitch: the file it is given, the temporary   *)
(* audio file of extract_audio_from_video and the files left on disk.      *)
(***************************************************************************)
\* video_extensions
VideoExtensions == {".mp4", ".avi", ".mov", ".mkv", ".webm", ".flv", ".wmv"}

\* Path(file_path).suffix of the files given to analyze_pitch
FileSuffixes == VideoExtensions \cup {".MP4", ".Mov", ".mp3", ".wav"}

\* str.lower() of a suffix
SuffixLower(s) ==
    CASE s = ".MP4" -> ".mp4" [] s = ".Mov" -> ".mov" [] OTHER -> s

NoPath == "None"
\* temp_audio.name: the name tempfile.NamedTemporaryFile(suffix='.mp3', delete=False) chose
TempAudioPath == "/tmp/tmpa1b2c3.mp3"

\* How extract_audio_from_video ends:
\*   no_moviepy     HAS_MOVIEPY is False
\*   not_found      the video file does not exist
\*   tempfile_fails tempfile.NamedTemporaryFile raises (no file is created)
\*   clip_fails     VideoFileClip(...) raises (not a video, codec unknown)
\*   write_fails    video.audio is None or write_audiofile raises
\*   extracted      the audio is written
ExtractOutcomes ==
    {"no_moviepy", "not_found", "tempfile_fails", "clip_fails", "write_fails", "extracted"}

\* What transcribe_audio_file gives: a text, None (it catches every Exception), or an
\* exception that is no Exception (KeyboardInterrupt during a sleep or a request).
TranscribeOutcomes == {"text", "None", "KeyboardInterrupt"}

\* os.unlink(temp_audio_file) in the finally clause: it removes the file or raises
UnlinkOutcomes == {"removed", "raises"}

NewAnalyze(suffix) ==
    [ pc |-> "start",            \* start | extract | transcribe | finally | returned | idle
      suffix |-> suffix,
      is_video |-> FALSE,
      temp_audio_file |-> NoPath,
      created |-> {},            \* the temporary files this call created
      on_disk |-> {},            \* those of them that are on disk
      result |-> "pending" ]     \* success | extract_failed | transcribe_failed | raised

IdleAnalyze == [NewAnalyze(".mp3") EXCEPT !.pc = "idle"]

(***************************************************************************)
(* The retry specification: one call of retry_with_backoff, made directly  *)
(* or by one of the two transcription wrappers.                            *)
(***************************************************************************)
Init ==
    /\ call \in {NewCall(a) : a \in RetryArgs}
    /\ pitch = IdlePitch
    /\ mistral = IdleMistral
    /\ other = IdleCall
    /\ analyze = IdleAnalyze

\* the for statement takes its next value, and func is invoked (or the range is over)
EnterLoop ==
    /\ call.pc = "for"
    /\ call' = LoopHead(call)
    /\ UNCHANGED <<pitch, mistral, other, analyze>>

\* the invocation of func in flight returns or raises
FuncReturnsOrRaises ==
    /\ call.pc = "func"
    /\ \E o \in FuncOutcomes : call' = FuncFinished(call, o)
    /\ UNCHANGED <<pitch, mistral, other, analyze>>

\* time.sleep(delay) is over
Wake ==
    /\ call.pc = "sleep"
    /\ call' = SleepDone(call)
    /\ UNCHANGED <<pitch, mistral, other, analyze>>

\* the wrapper's try/except around retry_with_backoff returns to its caller
WrapperReturns ==
    /\ call.pc \in {"returned", "raised"}
    /\ call.caller # "direct"
    /\ call' = [call EXCEPT !.pc = "done", !.wresult = WrapperReturn(call)]
    /\ UNCHANGED <<pitch, mistral, other, analyze>>

Next == EnterLoop \/ FuncReturnsOrRaises \/ Wake \/ WrapperReturns

Spec == Init /\ [][Next]_vars

(***************************************************************************)
(* A caller that wants to cancel the call while it sleeps.  The function   *)
(* has no parameter, flag or event for it: time.sleep(delay) goes on,      *)
(* unless the signal is SIGINT, which Python turns into KeyboardInterrupt. *)
(***************************************************************************)
KeyboardInterrupt == [cls |-> "KeyboardInterrupt", status_code |-> NoStatus]

\* a cancellation signal arrives during time.sleep(delay)
CancelArrives ==
    /\ call.pc = "sleep"
    /\ ~call.cancelled
    /\ \/ call' = [call EXCEPT !.cancelled = TRUE, !.at_cancel = call.invocations]
       \/ LET raised == [kind |-> "raise", value |-> NoneValue, exc |-> KeyboardInterrupt] IN
          \* not an Exception: the wrapper's except clauses let it through
          call' = [call EXCEPT !.cancelled = TRUE, !.at_cancel = call.invocations,
                               !.pc = IF call.caller = "direct" THEN "raised" ELSE "done",
                               !.result = raised,
                               !.wresult = IF call.caller = "direct" THEN @ ELSE raised]
    /\ UNCHANGED <<pitch, mistral, other, analyze>>

NextCancel == Next \/ CancelArrives

SpecCancel == Init /\ [][NextCancel]_vars

(***************************************************************************)
(* Two calls of retry_with_backoff by independent callers, their steps     *)
(* interleaved in any order.  The function has local variables only        *)
(* (attempt, delay, e): each call has its own.                             *)
(***************************************************************************)
\* the arguments of the two concurrent calls: direct calls with one or two retries, and
\* for the first call the two wrappers as well
TwoCallArgs ==
    {a \in RetryArgs : a.caller # "direct" \/ (a.max_retries \in {1, 2} /\ a.max_delay = 5)}

InitTwoCalls ==
    /\ call \in {NewCall(a) : a \in TwoCallArgs}
    /\ pitch = IdlePitch
    /\ mistral = IdleMistral
    /\ other \in {NewCall(a) : a \in {b \in TwoCallArgs : b.caller = "direct"}}
    /\ analyze = IdleAnalyze

OtherCallStepsMutant ==
    \/ /\ other.pc = "for"
       /\ other' = LoopHead(other)
       /\ UNCHANGED <<call, pitch, mistral, analyze>>
    \/ /\ other.pc = "func"
       /\ \E o \in FuncOutcomes : other' = FuncFinished(other, o)
       /\ UNCHANGED <<call, pitch, mistral, analyze>>
    \/ /\ other.pc = "sleep"
       /\ other' = SleepDone(other)
       /\ call' = [call EXCEPT !.attempt = @ + 1]
       /\ UNCHANGED <<pitch, mistral, analyze>>

\* the second call takes a step: the loop head, the end of func, the end of the sleep
OtherCallSteps ==
    \/ /\ other.pc = "for"
       /\ other' = LoopHead(other)
       /\ UNCHANGED <<call, pitch, mistral, analyze>>
    \/ /\ other.pc = "func"
       /\ \E o \in FuncOutcomes : other' = FuncFinished(other, o)
       /\ UNCHANGED <<call, pitch, mistral, analyze>>
    \/ /\ other.pc = "sleep"
       /\ other' = SleepDone(other)
       /\ UNCHANGED <<call, pitch, mistral, analyze>>

NextTwoCalls == Next \/ OtherCallSteps

SpecTwoCalls == InitTwoCalls /\ [][NextTwoCalls]_vars

(***************************************************************************)
(* The pitch specification: one call of PitchAgent.generate_pitch.         *)
(***************************************************************************)
InitPitch ==
    /\ call = IdleCall
    /\ pitch \in {NewPitch(t, r) : t \in PitchTopics, r \in PitchRemoteOutcomes}
    /\ mistral = IdleMistral
    /\ other = IdleCall
    /\ analyze = IdleAnalyze

Post ==
    /\ pitch.pc = "post"
    /\ pitch' = PitchPost(pitch)
    /\ UNCHANGED <<call, mistral, other, analyze>>

Clean ==
    /\ pitch.pc = "clean"
    /\ pitch' = PitchClean(pitch)
    /\ UNCHANGED <<call, mistral, other, analyze>>

StrictParse ==
    /\ pitch.pc = "loads"
    /\ pitch' = PitchLoads(pitch)
    /\ UNCHANGED <<call, mistral, other, analyze>>

FixIncompleteJson ==
    /\ pitch.pc = "fix"
    /\ pitch' = PitchFix(pitch)
    /\ UNCHANGED <<call, mistral, other, analyze>>

ExtractPartial ==
    /\ pitch.pc = "scavenge"
    /\ pitch' = PitchScavenge(pitch)
    /\ UNCHANGED <<call, mistral, other, analyze>>

ExceptDefault ==
    /\ pitch.pc = "except"
    /\ pitch' = PitchExcept(pitch)
    /\ UNCHANGED <<call, mistral, other, analyze>>

NextPitch ==
    Post \/ Clean \/ StrictParse \/ FixIncompleteJson \/ ExtractPartial \/ ExceptDefault

SpecPitch == InitPitch /\ [][NextPitch]_vars

(***************************************************************************)
(* The analysis specification: one call of                                 *)
(* PitchAnalysisAgent.generate_comprehensive_analysis on a pitch that      *)
(* holds its text, through MistralAnalysisAgent.                           *)
(***************************************************************************)
InitMistral ==
    /\ call = IdleCall
    /\ pitch = IdlePitch
    /\ mistral \in {NewMistral(d, r) : d \in PitchData, r \in MistralRemoteOutcomes}
    /\ other = IdleCall
    /\ analyze = IdleAnalyze

ChatComplete ==
    /\ mistral.pc = "call"
    /\ mistral' = MistralCall(mistral)
    /\ UNCHANGED <<call, pitch, other, analyze>>

ParseResponse ==
    /\ mistral.pc = "parse"
    /\ mistral' = MistralParse(mistral)
    /\ UNCHANGED <<call, pitch, other, analyze>>

RegexFallback ==
    /\ mistral.pc = "fallback"
    /\ mistral' = MistralFallback(mistral)
    /\ UNCHANGED <<call, pitch, other, analyze>>

Assemble ==
    /\ mistral.pc = "assemble"
    /\ \E draw \in VoiceDraws : mistral' = MistralAssemble(mistral, draw)
    /\ UNCHANGED <<call, pitch, other, analyze>>

CallerReturns ==
    /\ mistral.pc = "done"
    /\ \E voice \in {"none", "ok", "failed"} : mistral' = AnalysisCaller(mistral, voice)
    /\ UNCHANGED <<call, pitch, other, analyze>>

NextMistral == ChatComplete \/ ParseResponse \/ RegexFallback \/ Assemble \/ CallerReturns

SpecMistral == InitMistral /\ [][NextMistral]_vars

(***************************************************************************)
(* The transcription specification: one call of                            *)
(* PitchAnalysisAgent.analyze_pitch on a local audio or video file.        *)
(***************************************************************************)
InitAnalyze ==
    /\ call = IdleCall
    /\ pitch = IdlePitch
    /\ mistral = IdleMistral
    /\ other = IdleCall
    /\ analyze \in {NewAnalyze(s) : s \in FileSuffixes}

\* is_video = file_extension in video_extensions
DetectVideo ==
    /\ analyze.pc = "start"
    /\ LET is_video == SuffixLower(analyze.suffix) \in VideoExtensions IN
       analyze' = [analyze EXCEPT !.is_video = is_video,
                                  !.pc = IF is_video THEN "extract" ELSE "transcribe"]
    /\ UNCHANGED <<call, pitch, mistral, other>>

\* temp_audio_file = self.extract_audio_from_video(file_path)
ExtractAudio ==
    /\ analyze.pc = "extract"
    /\ \E o \in ExtractOutcomes :
          LET made == IF o \in {"clip_fails", "write_fails", "extracted"}
                      THEN {TempAudioPath} ELSE {} IN
          analyze' =
              IF o = "extracted"
              THEN [analyze EXCEPT !.pc = "transcribe", !.temp_audio_file = TempAudioPath,
                                   !.created = made, !.on_disk = made]
              \* the except clause returns None: the name of the file is lost
              ELSE [analyze EXCEPT !.pc = "finally", !.result = "extract_failed",
                                   !.created = made, !.on_disk = made]
    /\ UNCHANGED <<call, pitch, mistral, other>>

\* transcription = self.transcribe_audio_file(audio_file_path, language_code)
TranscribeAudio ==
    /\ analyze.pc = "transcribe"
    /\ \E t \in TranscribeOutcomes :
          analyze' = [analyze EXCEPT !.pc = "finally",
                                     !.result = CASE t = "text" -> "success"
                                                  [] t = "None" -> "transcribe_failed"
                                                  [] OTHER -> "raised"]
    /\ UNCHANGED <<call, pitch, mistral, other>>

\* the finally clause of analyze_pitch
FinallyCleanUp ==
    /\ analyze.pc = "finally"
    /\ \E u \in UnlinkOutcomes :
          analyze' =
              IF /\ analyze.temp_audio_file # NoPath
                 /\ analyze.temp_audio_file \in analyze.on_disk
                 /\ u = "removed"
              THEN [analyze EXCEPT !.pc = "returned",
                                   !.on_disk = @ \ {analyze.temp_audio_file}]
              ELSE [analyze EXCEPT !.pc = "returned"]
    /\ UNCHANGED <<call, pitch, mistral, other>>

NextAnalyze == DetectVideo \/ ExtractAudio \/ TranscribeAudio \/ FinallyCleanUp

SpecAnalyze == InitAnalyze /\ [][NextAnalyze]_vars

(***************************************************************************)
(* The three components, one of them running.                              *)
(***************************************************************************)
InitAgents == Init \/ InitPitch \/ InitMistral

NextAgents == Next \/ NextPitch \/ NextMistral

SpecAgents == InitAgents /\ [][NextAgents]_vars

(***************************************************************************)
(* The round trip: the record a call returned, serialised by json.dumps,   *)
(* is the response text of a second call of the same method.               *)
(***************************************************************************)
ResubmitPitch ==
    /\ pitch.pc = "done"
    /\ pitch.previous = NoJson
    /\ LET Again(t) ==
               /\ t.ok
               /\ pitch' = [NewPitch(pitch.topic, [kind |-> "content", status_code |-> 200,
                                                    content |-> t.text])
                               EXCEPT !.previous = pitch.result] IN
       Again(JsonDumps(pitch.result))
    /\ UNCHANGED <<call, mistral, other, analyze>>

ResubmitAnalysis ==
    /\ mistral.pc = "done"
    /\ mistral.result.success
    /\ mistral.previous = NoJson
    /\ LET Again(t) ==
               /\ t.ok
               /\ mistral' = [NewMistral(mistral.pitch_data,
                                         [kind |-> "content", status_code |-> 200,
                                          content |-> t.text])
                                 EXCEPT !.previous = mistral.result.analysis] IN
       Again(JsonDumps(mistral.result.analysis))
    /\ UNCHANGED <<call, pitch, other, analyze>>

NextRoundTrip == NextAgents \/ ResubmitPitch \/ ResubmitAnalysis

SpecRoundTrip == InitAgents /\ [][NextRoundTrip]_vars

(***************************************************************************)
(* Claims about retry_with_backoff (specification Spec).                   *)
(***************************************************************************)
Ended(c) == c.pc \in {"returned", "raised", "done"}
FailedWith429(o) == ~o.ok /\ o.exc.status_code = RateLimitStatus
FailedFatally(o) == ~o.ok /\ o.exc.status_code # RateLimitStatus

\* C1: with max_retries >= 0, one call of retry_with_backoff invokes func at most
\* max_retries + 1 times, and once the last permitted invocation has finished the
\* call has returned or raised.
C1_AttemptsBounded ==
    call.max_retries >= 0 =>
        /\ call.invocations <= call.max_retries + 1
        /\ call.attempt <= call.max_retries
        /\ (call.invocations = call.max_retries + 1 /\ call.pc # "func") => Ended(call)

C1_Witness ==
    /\ call.caller = "direct" /\ call.max_retries = 3
    /\ call.invocations = 4 /\ call.pc = "raised"

\* C2: a failure that is not a rate-limit (429) failure is raised on that same
\* attempt: it is the last invocation, no sleep follows it, and the error raised is
\* that error; every failure that was followed by a retry is a 429 failure.
C2_FatalRaisesAtOnce ==
    /\ \A i \in 1..Len(call.outcomes) :
          FailedFatally(call.outcomes[i]) =>
              /\ i = Len(call.outcomes)
              /\ call.invocations = i
              /\ Len(call.sleeps) = i - 1
              /\ call.pc \in {"raised", "done"}
              /\ call.result.kind = "raise"
              /\ call.result.exc = call.outcomes[i].exc
    /\ \A i \in 1..(Len(call.outcomes) - 1) : FailedWith429(call.outcomes[i])
    /\ Len(call.sleeps) <= Len(call.outcomes)
    /\ \A i \in 1..Len(call.sleeps) : FailedWith429(call.outcomes[i])

C2_Witness ==
    /\ call.max_retries = 3
    /\ Len(call.outcomes) = 1 /\ FailedFatally(call.outcomes[1])
    /\ call.outcomes[1].exc.status_code = 500
    /\ call.pc = "raised" /\ call.invocations = 1 /\ call.sleeps = << >>

\* the delay the claim states for attempt a: initial_delay * backoff_factor^a, capped
RECURSIVE ClaimedUncapped(_, _, _)
ClaimedUncapped(d, f, a) == IF a = 0 THEN d ELSE f * ClaimedUncapped(d, f, a - 1)

ClaimedDelay(c, a) ==
    LET u == ClaimedUncapped(c.initial_delay, c.backoff_factor, a) IN
    IF u > c.max_delay THEN c.max_delay ELSE u

\* C3: when attempt a (from 0) fails with a 429 error and a < max_retries, the call
\* sleeps exactly min(initial_delay * backoff_factor^a, max_delay) and then retries;
\* with max_retries=3, initial_delay=1, backoff_factor=2 three such failures give the
\* sleeps 1, 2, 4; no sleep is longer than max_delay.
C3_BackoffSleeps ==
    /\ \A i \in 1..Len(call.outcomes) :
          (FailedWith429(call.outcomes[i]) /\ i - 1 < call.max_retries) =>
              /\ Len(call.sleeps) >= i
              /\ call.sleeps[i] = ClaimedDelay(call, i - 1)
              /\ \/ call.invocations > i
                 \/ call.pc \in {"sleep", "for"}
    /\ \A j \in 1..Len(call.sleeps) : call.sleeps[j] <= call.max_delay
    /\ ( /\ call.max_retries = 3 /\ call.initial_delay = 1 /\ call.backoff_factor = 2
         /\ call.max_delay = 60
         /\ Len(call.outcomes) >= 3
         /\ \A i \in 1..3 : FailedWith429(call.outcomes[i]) )
          => SubSeq(call.sleeps, 1, 3) = <<1, 2, 4>>

C3_Witness ==
    /\ call.max_retries = 3 /\ call.initial_delay = 1 /\ call.backoff_factor = 2
    /\ call.sleeps = <<1, 2, 4>>
    /\ call.invocations = 4

\* C4: when a transcription call has used all its attempts and every one failed with
\* a 429 error, the call yields the human-readable placeholder text: it does not
\* raise and it does not return None.
C4_ExhaustedRateLimitDegrades ==
    ( /\ call.caller # "direct" /\ call.pc = "done"
      /\ Len(call.outcomes) = call.max_retries + 1
      /\ \A i \in 1..Len(call.outcomes) : FailedWith429(call.outcomes[i]) )
        => /\ call.wresult.kind = "return"
           /\ call.wresult.value.kind = "str"
           /\ call.wresult.value = Placeholder(call.caller)
           /\ call.wresult.value.text # ""

C4_Witness ==
    /\ call.caller = "_transcribe_local_file" /\ call.pc = "done"
    /\ Len(call.outcomes) = 4
    /\ \A i \in 1..4 : FailedWith429(call.outcomes[i])
    /\ call.result.kind = "raise"
    /\ call.wresult.value = Placeholder("_transcribe_local_file")

\* C5: when an invocation of func returns, retry_with_backoff returns that value at
\* once: it is the last invocation, no sleep follows it and the value returned is the
\* value of that invocation.
C5_SuccessReturnsAtOnce ==
    \A i \in 1..Len(call.outcomes) :
        call.outcomes[i].ok =>
            /\ i = Len(call.outcomes)
            /\ call.invocations = i
            /\ Len(call.sleeps) = i - 1
            /\ call.pc \in {"returned", "done"}
            /\ call.result.kind = "return"
            /\ call.result.value = call.outcomes[i].value

C5_Witness ==
    /\ Len(call.outcomes) = 3 /\ call.outcomes[3].ok
    /\ call.outcomes[3].value.kind = "str"
    /\ call.pc = "returned" /\ Len(call.sleeps) = 2
    /\ call.result.value = call.outcomes[3].value

(***************************************************************************)
(* Claims about MistralAnalysisAgent.generate_comprehensive_analysis       *)
(* (specification SpecMistral) and PitchAgent.generate_pitch               *)
(* (specification SpecPitch).                                              *)
(***************************************************************************)
AnalysisReturned(m) == m.pc \in {"done", "returned"}

\* a field the response may carry: present in the record a, holding the default when
\* the parsed object ma lacks it and the extracted value (or the default) otherwise
FieldFilled(a, ma, key, default) ==
    /\ HasKey(a, key)
    /\ IF HasKey(ma, key)
       THEN ObjGet(a, key, NoJson) \in {ObjGet(ma, key, NoJson), default}
       ELSE ObjGet(a, key, NoJson) = default

SchemaDefaults ==
    << <<Key.overallScore, Default.overallScore>>, <<Key.categoryScores, Default.categoryScores>>,
       <<Key.feedback, Default.feedback>>, <<Key.response, Default.response>>,
       <<Key.keynotes, Default.keynotes>>, <<Key.marketAnalysis, Default.marketAnalysis>>,
       <<Key.nftEligible, Default.nftEligible>> >>

CompleteRecord(a, ma) ==
    /\ a.t = "obj"
    /\ \A i \in 1..Len(SchemaDefaults) :
          FieldFilled(a, ma, SchemaDefaults[i][1], SchemaDefaults[i][2])
    /\ \A key \in {Key.id, Key.pitchId, Key.createdAt} :
          HasKey(a, key) /\ ObjGet(a, key, NoJson).t = "str" /\ ObjGet(a, key, NoJson).s # << >>

\* C6: generate_comprehensive_analysis of MistralAnalysisAgent returns either
\* success=True with an analysis that has every schema field (overallScore,
\* categoryScores, feedback, response, keynotes, marketAnalysis, nftEligible, id,
\* pitchId, createdAt), each the extracted value or its default, or success=False with
\* an error and no analysis; from an empty parsed object every field is its default.
C6_NeverPartialRecord ==
    AnalysisReturned(mistral) =>
        /\ \/ /\ mistral.result.success
              /\ mistral.result.keys = {"success", "analysis"}
              /\ mistral.mistral_analysis.t = "obj"
              /\ CompleteRecord(mistral.result.analysis, mistral.mistral_analysis)
           \/ /\ ~mistral.result.success
              /\ mistral.result.keys = {"success", "error"}
              /\ mistral.result.error # ""
              /\ mistral.result.analysis = NoJson
        /\ (mistral.result.success /\ mistral.mistral_analysis = ObjVal(<< >>, << >>)) =>
              \A i \in 1..Len(SchemaDefaults) :
                  ObjGet(mistral.result.analysis, SchemaDefaults[i][1], NoJson)
                      = SchemaDefaults[i][2]

C6_Witness ==
    /\ mistral.pc = "done" /\ mistral.result.success
    /\ mistral.analysis_text = MistralBody.empty
    /\ mistral.mistral_analysis = ObjVal(<< >>, << >>)
    /\ ObjGet(mistral.result.analysis, Key.overallScore, NoJson) = Default.overallScore
    /\ ObjGet(mistral.result.analysis, Key.nftEligible, NoJson) = Default.nftEligible

\* C7: generate_pitch returns, for every remote outcome and every response text, a
\* mapping with all four keys problem, solution, market and business_model.
C7_AlwaysFourKeys ==
    pitch.pc = "done" =>
        /\ pitch.result.t = "obj"
        /\ \A i \in 1..Len(PitchKeys) : HasKey(pitch.result, PitchKeys[i])

StageOrder == <<"strict", "repair", "scavenge">>

\* C10: the recovery stages of generate_pitch run in the order strict parse, repair,
\* scavenging, each at most once; repair runs only on a candidate that json.loads
\* rejected and scavenging only when the repaired text was rejected as well.
C10_StagesInOrder ==
    /\ Len(pitch.stages) <= Len(StageOrder)
    /\ pitch.stages = SubSeq(StageOrder, 1, Len(pitch.stages))
    /\ Len(pitch.stages) >= 2 => ~JsonLoads(pitch.pitch_text_clean).ok
    /\ Len(pitch.stages) >= 3 => ~JsonLoads(FixedText(pitch.pitch_text_clean)).ok
    /\ pitch.via = "strict" => pitch.stages = <<"strict">>
    /\ pitch.via = "repair" => pitch.stages = <<"strict", "repair">>

C10_Witness ==
    /\ pitch.pc = "done" /\ pitch.stages = StageOrder /\ pitch.via = "scavenge"
    /\ ~JsonLoads(pitch.pitch_text_clean).ok
    /\ ~JsonLoads(pitch.json_text).ok

(***************************************************************************)
(* Claims about the three components together (specification SpecAgents).  *)
(***************************************************************************)
\* the remote call of generate_pitch gave a text and strict parse, repair and every
\* field pattern of the scavenging failed on it
PitchExtractionFailed(p) ==
    /\ p.pc = "done" /\ p.remote.kind = "content" /\ p.stages = StageOrder
    /\ \A i \in 1..Len(PitchKeys) : ~FieldSearch(p.json_text, PitchKeys[i]).found

\* the remote call of the Mistral agent gave a text and neither json.loads accepted
\* a candidate from it
AnalysisExtractionFailed(m) ==
    AnalysisReturned(m) /\ m.remote.kind = "content" /\ m.stage = "none"

PitchGetsDefaults(p) ==
    PitchExtractionFailed(p) => p.via = "scavenge" /\ p.result = ScavengeDefaultRecord

FatalRemote(r) == r.kind = "raise" /\ r.status_code # RateLimitStatus

\* retry_with_backoff raises the fatal error, and the transcription wrappers turn it
\* into None (no transcript and no placeholder)
RetryPropagatesFatal(c) ==
    (Ended(c) /\ c.outcomes # << >> /\ FailedFatally(c.outcomes[Len(c.outcomes)])) =>
        /\ c.result.kind = "raise"
        /\ c.result.exc = c.outcomes[Len(c.outcomes)].exc
        /\ c.pc = "done" => c.wresult.value = NoneValue

\* the Mistral agent reports success=False and its caller raises ValueError
AnalysisPropagatesFatal(m) ==
    (AnalysisReturned(m) /\ FatalRemote(m.remote)) =>
        /\ ~m.result.success
        /\ m.result.analysis = NoJson
        /\ m.pc = "returned" => m.caller.kind = "raise"

WellFormedObject(b) == JsonLoads(b).ok /\ JsonLoads(b).val.t = "obj"

\* a body alone, after prose, before prose without braces, or in a code fence
Wrapped(b, before, after) ==
    { pre \o b \o suf : pre \in {<< >>} \cup before, suf \in {<< >>} \cup after }

\* C11: a response that holds one well-formed JSON object, alone, with prose around
\* it or in a code fence, is parsed at the first stage (no fallback, no repair) and the
\* parsed value is exactly that object, every field with its original value.
C11_FirstStageExact ==
    /\ \A b \in MistralBodies :
          ( /\ mistral.pc \in {"assemble", "done", "returned"}
            /\ mistral.analysis_text \in
                  Wrapped(b, {MistralWrap.prose_before, PitchWrap.fence_before},
                          {PitchWrap.fence_after})
            /\ WellFormedObject(b) )
          => /\ mistral.stage = "first"
             /\ mistral.mistral_analysis = JsonLoads(b).val
    /\ \A b \in PitchBodies :
          ( /\ pitch.pc = "done"
            /\ pitch.pitch_text \in
                  Wrapped(b, {PitchWrap.prose_before, PitchWrap.fence_before},
                          {PitchWrap.fence_after, PitchWrap.prose_after})
            /\ WellFormedObject(b) )
          => /\ pitch.via = "strict"
             /\ pitch.result = JsonLoads(b).val

\* an object text that lost its closing brace
MissingBrace(b) == SubSeq(b, 1, Len(b) - 1)

\* C12: for an object text that lost its trailing closing brace by truncation,
\* _fix_incomplete_json appends the missing brace and returns the parsed object, not
\* the scavenged record: the fields of the truncated text keep their original values.
C12_RepairReturnsParsedObject ==
    \A b \in PitchBodies :
        ( /\ pitch.pc = "done"
          /\ WellFormedObject(b)
          /\ pitch.pitch_text = MissingBrace(b) )
        => /\ pitch.via = "repair"
           /\ pitch.result = JsonLoads(b).val

\* the object with the string fields problem and solution, and no other field, that
\* the text t is once its closing brace is put back (NoJson when t is no such text)
TwoFieldObject(t) ==
    LET Whole(r) ==
            IF /\ r.ok /\ r.val.t = "obj"
               /\ r.val.keys = <<PitchKey.problem, PitchKey.solution>>
               /\ \A i \in 1..2 : r.val.items[i].t = "str"
            THEN r.val ELSE NoJson IN
    IF t # << >> /\ t[1] = "{" /\ ~JsonLoads(t).ok
    THEN Whole(JsonLoads(t \o <<"}">>)) ELSE NoJson

\* the four-key record that has the two fields of o and the defaults of the others
WithDefaults(o) ==
    ObjVal(PitchKeys, <<o.items[1], o.items[2],
                        StrVal(PitchDefault.market), StrVal(PitchDefault.business_model)>>)

\* C13: when the response is optional prose followed by an object cut before its
\* closing brace that has the string fields problem and solution and no market or
\* business_model, generate_pitch returns a record with all four fields: problem and
\* solution as in the text, market and business_model with their defaults.
C13_TruncatedGetsDefaults ==
    \A pre \in {<< >>, PitchWrap.prose_before} :
        LET Holds(o) == o # NoJson => pitch.result = WithDefaults(o) IN
        ( /\ pitch.pc = "done"
          /\ Len(pitch.pitch_text) > Len(pre)
          /\ SubSeq(pitch.pitch_text, 1, Len(pre)) = pre )
        => Holds(TwoFieldObject(SubSeq(pitch.pitch_text, Len(pre) + 1,
                                       Len(pitch.pitch_text))))

\* the text "problem": "X", "solution": "Y" (no braces)
PairText(X, Y) ==
    <<"\"">> \o PitchKey.problem \o <<"\"", ":", " ", "\"">> \o X \o <<"\"", ",", " ", "\"">>
        \o PitchKey.solution \o <<"\"", ":", " ", "\"">> \o Y \o <<"\"">>

\* the values X and Y of the pairs
PairValues == {<<"P">>, <<"S">>, <<"P", "\n", "Q">>}

\* C14: when the response has no braces at all and holds the pairs "problem": "X" and
\* "solution": "Y", strict parse fails, repair fails and the scavenging recovers
\* problem = X and solution = Y; market and business_model get their defaults.
C14_ScavengeRecoversPairs ==
    \A X \in PairValues, Y \in PairValues :
        ( /\ pitch.pc = "done"
          /\ pitch.pitch_text \in
                Wrapped(PairText(X, Y), {PitchWrap.prose_before}, {PitchWrap.prose_after}) )
        => /\ pitch.stages = StageOrder
           /\ pitch.via = "scavenge"
           /\ pitch.result = WithDefaults(ObjVal(<<PitchKey.problem, PitchKey.solution>>,
                                                 <<StrVal(X), StrVal(Y)>>))

(***************************************************************************)
(* Claims about the round trip (specification SpecRoundTrip).              *)
(***************************************************************************)
\* two analysis records agree on every field that comes from the LLM response
SameAnalysis(a, b) ==
    \A i \in 1..Len(SchemaDefaults) :
        ObjGet(a, SchemaDefaults[i][1], NoJson) = ObjGet(b, SchemaDefaults[i][1], NoJson)

\* C15: round-trip stability: when the record a call returned is serialised as JSON
\* and given to the same method as the response text, the method returns the same
\* record (the identifiers, the timestamp and the voice analysis, which do not come
\* from the response text, aside).
C15_RoundTripStable ==
    /\ (pitch.pc = "done" /\ pitch.previous # NoJson) => pitch.result = pitch.previous
    /\ (mistral.pc = "done" /\ mistral.previous # NoJson) =>
          /\ mistral.result.success
          /\ SameAnalysis(mistral.result.analysis, mistral.previous)

(***************************************************************************)
(* Claims about the fields of the analysis record (specification           *)
(* SpecMistral).                                                           *)
(***************************************************************************)
\* the method returned success=True
AnalysisSucceeded(m) == m.pc \in {"done", "returned"} /\ m.result.success

EmptyList == ArrVal(<< >>)

\* C16: keynotes is gated by pitchType: for audio and video it is the keynotes of the
\* LLM response (the empty list when the response has none), for text, for a missing
\* pitchType and for any other value it is the empty list whatever the response
\* holds; every successful record has the field.
C16_KeynotesGated ==
    AnalysisSucceeded(mistral) =>
        /\ HasKey(mistral.result.analysis, Key.keynotes)
        /\ ObjGet(mistral.result.analysis, Key.keynotes, NoJson) =
              IF mistral.pitch_data.pitchType \in {"audio", "video"}
              THEN ObjGet(mistral.mistral_analysis, Key.keynotes, EmptyList)
              ELSE EmptyList

C16_Witness ==
    /\ AnalysisSucceeded(mistral)
    /\ mistral.pitch_data.pitchType = "image"
    /\ HasKey(mistral.mistral_analysis, Key.keynotes)
    /\ ObjGet(mistral.mistral_analysis, Key.keynotes, EmptyList) # EmptyList
    /\ ObjGet(mistral.result.analysis, Key.keynotes, NoJson) = EmptyList

\* an integer within 70..100
ScoreInRange(v) == v.t = "num" /\ v.n >= 70 /\ v.n <= 100

\* C17: in every successful analysis record overallScore and each of the five
\* categoryScores are integers within 70..100: an extracted score outside the range
\* is clamped into it and the defaults lie inside it.
C17_ScoresClamped ==
    AnalysisSucceeded(mistral) =>
        LET Scores(c) ==
                /\ c.t = "obj"
                /\ \A i \in 1..Len(Default.categoryScores.keys) :
                      /\ HasKey(c, Default.categoryScores.keys[i])
                      /\ ScoreInRange(ObjGet(c, Default.categoryScores.keys[i], NoJson)) IN
        /\ ScoreInRange(ObjGet(mistral.result.analysis, Key.overallScore, NoJson))
        /\ Scores(ObjGet(mistral.result.analysis, Key.categoryScores, NoJson))

\* the declared types of the schema fields, in the order of SchemaDefaults
DeclaredTypes ==
    << {"num", "float"}, {"obj"}, {"obj"}, {"str"}, {"arr"}, {"obj"}, {"true", "false"} >>

\* C18: record assembly uses the extracted value of a schema field only if it has the
\* field's declared type (number for overallScore, object for categoryScores, feedback
\* and marketAnalysis, string for response, list for keynotes, boolean for
\* nftEligible); an extracted value of another type is replaced by the default, so
\* every field of every successful record has its declared type.
C18_TypeConsistent ==
    AnalysisSucceeded(mistral) =>
        \A i \in 1..Len(SchemaDefaults) :
            LET Typed(got, extracted) ==
                    /\ got.t \in DeclaredTypes[i]
                    /\ extracted.t \notin DeclaredTypes[i] => got = SchemaDefaults[i][2] IN
            Typed(ObjGet(mistral.result.analysis, SchemaDefaults[i][1], NoJson),
                  ObjGet(mistral.mistral_analysis, SchemaDefaults[i][1], NoJson))

(***************************************************************************)
(* Claims about the scavenging (specification SpecPitch).                  *)
(***************************************************************************)
\* the pattern "<key>" : " occurs in text at position k and its opening quote of the
\* value stands at position q
PatternAt(text, key, k, q) ==
    \E c \in (k + Len(key) + 2)..(q - 1) :
        /\ SubSeq(text, k, k + Len(key) + 1) = <<"\"">> \o key \o <<"\"">>
        /\ \A j \in (k + Len(key) + 2)..(c - 1) : text[j] \in RegexWS
        /\ text[c] = ":"
        /\ \A j \in (c + 1)..(q - 1) : text[j] \in RegexWS
        /\ text[q] = "\""

\* v is the run of non-quote characters of text that starts after position q
RunAfter(text, q, v) ==
    /\ q + Len(v) <= Len(text)
    /\ v = SubSeq(text, q + 1, q + Len(v))
    /\ \A j \in 1..Len(v) : v[j] # "\""
    /\ q + Len(v) < Len(text) => text[q + Len(v) + 1] = "\""

\* the value of the field is the run after the first occurrence of its pattern in
\* text, the default when the pattern does not occur
Scavenged(text, key, value, default) ==
    LET Occurs(k) == \E q \in k..Len(text) : PatternAt(text, key, k, q) IN
    IF \A k \in 1..Len(text) : ~Occurs(k)
    THEN value = default
    ELSE \E k \in 1..Len(text), q \in 1..Len(text) :
            /\ PatternAt(text, key, k, q)
            /\ \A j \in 1..(k - 1) : ~Occurs(j)
            /\ value.t = "str"
            /\ RunAfter(text, q, value.s)

\* C19: the scavenging is total and per field: _extract_partial_data returns a record
\* for every text it is given; a field whose pattern "<field>" : " occurs in the text
\* has the run of non-quote characters after the first occurrence as its value, a
\* field whose pattern does not occur has its default, whatever the other fields are.
C19_ScavengePerField ==
    /\ (pitch.pc = "done" /\ pitch.stages = StageOrder) => pitch.via = "scavenge"
    /\ (pitch.pc = "done" /\ pitch.via = "scavenge") =>
          /\ pitch.result.t = "obj"
          /\ pitch.result.keys = PitchKeys
          /\ \A i \in 1..Len(PitchKeys) :
                Scavenged(pitch.json_text, PitchKeys[i], pitch.result.items[i],
                          ScavengeDefaultRecord.items[i])

C19_Witness ==
    /\ pitch.pc = "done" /\ pitch.via = "scavenge"
    /\ pitch.result.items[1] # ScavengeDefaultRecord.items[1]
    /\ pitch.result.items[2] # ScavengeDefaultRecord.items[2]
    /\ pitch.result.items[3] = ScavengeDefaultRecord.items[3]
    /\ \E k \in 1..Len(pitch.json_text), q \in 1..Len(pitch.json_text) :
          PatternAt(pitch.json_text, PitchKey.problem, k, q)

(***************************************************************************)
(* Claims about the order of the attempts (specification Spec).            *)
(***************************************************************************)
\* at most one invocation of func is in flight, and it is the only one not finished
OneInFlight(c) ==
    /\ c.inflight \in {0, 1}
    /\ c.inflight = 1 <=> c.pc = "func"
    /\ c.invocations = Len(c.outcomes) + c.inflight

\* an invocation of func starts in this step
Starts(c, d) == d.invocations > c.invocations

\* C20: within one call of retry_with_backoff the attempts are strictly sequential:
\* an invocation of func starts only after the previous one has finished and, when
\* that one failed with a rate-limit error, after its backoff sleep is over; never
\* are two invocations of func in flight for the same call.
C20_AttemptsSequential ==
    /\ [] OneInFlight(call)
    /\ [][ Starts(call, call') =>
              /\ call'.invocations = call.invocations + 1
              /\ call.inflight = 0
              /\ call.pc = "for"
              /\ Len(call.outcomes) = call.invocations
              /\ \A i \in 1..Len(call.outcomes) :
                    /\ FailedWith429(call.outcomes[i])
                    /\ Len(call.sleeps) >= i ]_vars

C20_Witness ==
    /\ call.pc = "func" /\ call.inflight = 1
    /\ call.invocations = 3
    /\ Len(call.outcomes) = 2 /\ Len(call.sleeps) = 2
    /\ \A i \in 1..2 : FailedWith429(call.outcomes[i])

(***************************************************************************)
(* Claims about concurrent calls (specification SpecTwoCalls).             *)
(***************************************************************************)
\* the outcomes of c that were followed by a backoff sleep: the rate-limit failures
\* that were not the last attempt the arguments allow
Retried(c) ==
    {i \in 1..Len(c.outcomes) : FailedWith429(c.outcomes[i]) /\ i - 1 < c.max_retries}

\* the attempt count, the sleeps and the result of c are what its own arguments and
\* its own func outcomes give
OwnArgumentsAndOutcomes(c) ==
    LET n == Len(c.outcomes) IN
    /\ c.invocations = n + c.inflight
    /\ Len(c.sleeps) = Cardinality(Retried(c))
    /\ \A i \in 1..Len(c.sleeps) : c.sleeps[i] = ClaimedDelay(c, i - 1)
    /\ c.attempt = IF c.pc = "sleep" THEN Len(c.sleeps) - 1 ELSE Len(c.sleeps)
    /\ c.pc \in {"for", "func", "sleep"} <=> c.result = NoResult
    /\ c.pc \in {"returned", "raised"} =>
          /\ n >= 1
          /\ c.result = IF c.outcomes[n].ok
                        THEN [kind |-> "return", value |-> c.outcomes[n].value,
                              exc |-> NoException]
                        ELSE [kind |-> "raise", value |-> NoneValue,
                              exc |-> c.outcomes[n].exc]

\* C21: retry_with_backoff is safe for concurrent independent callers: when two calls
\* run interleaved in any order, the attempt count, the sleeps and the result of each
\* depend only on its own arguments and its own func outcomes, and no step of one call
\* reads or writes the counters and delays of the other.
C21_CallsIndependent ==
    /\ [](OwnArgumentsAndOutcomes(call) /\ OwnArgumentsAndOutcomes(other))
    /\ [][call' = call \/ other' = other]_vars

C21_Witness ==
    /\ call.pc = "sleep" /\ other.pc = "func"
    /\ call.attempt # other.attempt
    /\ call.sleeps # << >> /\ other.sleeps # << >>
    /\ call.sleeps # other.sleeps
    /\ call.initial_delay # other.initial_delay

(***************************************************************************)
(* Claims about cancellation (specification SpecCancel).                   *)
(***************************************************************************)
\* C22: a cancellation signal that arrives while retry_with_backoff is in a backoff
\* sleep cuts the sleep short: the call ends with a TimeoutError, which is not the
\* error of the remote call, and func is not invoked again.
C22_CancelRaisesTimeout ==
    call.cancelled =>
        /\ call.pc \in {"raised", "done"}
        /\ call.result.kind = "raise"
        /\ call.result.exc.cls = "TimeoutError"
        /\ call.invocations = call.at_cancel

\* json_text of _fix_incomplete_json after the missing closing braces are appended
BraceBalanced(json_text) ==
    LET deficit == CountChar(json_text, "{") - CountChar(json_text, "}") IN
    IF deficit > 0 THEN json_text \o Repeat("}", deficit) ELSE json_text

\* the line scan's first rule applies: the line ends with a quote that no comma follows
EndsWithBareQuote(line) == EndsWithOneOf(Strip(line), {"\""})

\* the line is one the truncated-text rule of the spec appends to
LooksTruncated(line) ==
    /\ Len(Strip(line)) > 0
    /\ ~EndsWithOneOf(Strip(line), {"{", "}", "[", "]", ",", "\""})

\* C23: in the line scan of _fix_incomplete_json the truncated-text rule changes a
\* line only if its trimmed content is non-empty and does not end in one of
\* { } [ ] , " : every other line that the first rule (a closing quote without a
\* comma) does not change, a line ending in '[' among them, is left as it was.
C23_TruncatedRuleSparesSixEndings ==
    (pitch.pc \in {"done", "scavenge"} /\ Len(pitch.stages) >= 2 /\ pitch.stages[2] = "repair") =>
        LET before == SplitLines(BraceBalanced(pitch.pitch_text_clean), 1)
            after == SplitLines(pitch.json_text, 1) IN
        /\ Len(after) = Len(before)
        /\ \A i \in 1..Len(before) :
              after[i] # before[i] => (EndsWithBareQuote(before[i]) \/ LooksTruncated(before[i]))

\* the record generate_pitch returns for this call's topic when the remote call fails
FailureRecord == TopicDefaultRecord(pitch.topic)

\* C24: a field that generate_pitch fills from a default after scavenging (its pattern
\* matched nowhere in the scavenged text) has the value that the same field has in
\* the record returned for the same topic when the remote call fails.
C24_DefaultsFollowTopic ==
    (pitch.pc = "done" /\ pitch.via = "scavenge") =>
        \A i \in 1..Len(PitchKeys) :
            ~FieldSearch(pitch.json_text, PitchKeys[i]).found =>
                ObjGet(pitch.result, PitchKeys[i], NullVal) = ObjGet(FailureRecord, PitchKeys[i], NullVal)

\* the call of generate_comprehensive_analysis for pitch_data d that receives the
\* response text t, when its first try block is over
AfterFirstStage(d, t) ==
    MistralParse(MistralCall(NewMistral(d, [kind |-> "content", status_code |-> 200,
                                            content |-> t])))

\* C25: the regex fallback of generate_comprehensive_analysis is a real second chance:
\* for the pitch_data of the call there is a response text for which the parse of the
\* first-'{'-to-last-'}' candidate fails and the regex fallback yields a parsed record.
C25_FallbackIsSecondChance ==
    \E t \in MistralTexts :
        LET first == AfterFirstStage(mistral.pitch_data, t) IN
        /\ first.pc = "fallback"
        /\ MistralFallback(first).stage = "regex"

(***************************************************************************)
(* Claims about what the transcription wrappers return and about the sleeps *)
(* of one call (specification Spec).                                        *)
(***************************************************************************)
\* C26: a transcription wrapper returns the placeholder only if func was invoked
\* max_retries + 1 times and every invocation failed with a 429 error; if an
\* invocation failed with another error the wrapper returns None, and if an
\* invocation succeeded the wrapper returns that invocation's value.
C26_PlaceholderOnlyWhenExhausted ==
    (call.caller # "direct" /\ call.pc = "done") =>
        /\ call.wresult.kind = "return"
        /\ call.wresult.value = Placeholder(call.caller) =>
              /\ call.invocations = call.max_retries + 1
              /\ Len(call.outcomes) = call.max_retries + 1
              /\ \A i \in 1..Len(call.outcomes) : FailedWith429(call.outcomes[i])
        /\ (\E i \in 1..Len(call.outcomes) : FailedFatally(call.outcomes[i]))
              => call.wresult.value = NoneValue
        /\ \A i \in 1..Len(call.outcomes) :
              call.outcomes[i].ok => call.wresult.value = call.outcomes[i].value

C26_Witness ==
    /\ call.caller = "_transcribe_from_url" /\ call.pc = "done"
    /\ Len(call.outcomes) = 3
    /\ FailedWith429(call.outcomes[1]) /\ FailedWith429(call.outcomes[2])
    /\ FailedFatally(call.outcomes[3]) /\ call.outcomes[3].exc.status_code = 500
    /\ call.wresult.value = NoneValue

\* a sleep has been taken that no invocation of func has followed yet
SleepPending(c) == Len(c.sleeps) = c.invocations

\* C27: in a call of retry_with_backoff with max_retries >= 0 the number of sleeps is
\* the number of invocations of func minus one when the call ends; a sleep is taken
\* only between two invocations: every sleep is followed by another invocation, and
\* none follows the last attempt, however that attempt ended.
C27_SleepsBetweenAttempts ==
    /\ [](call.max_retries >= 0 =>
            /\ call.invocations >= 1 =>
                  Len(call.sleeps) \in {call.invocations - 1, call.invocations}
            /\ SleepPending(call) => call.pc \in {"for", "sleep"}
            /\ Ended(call) => Len(call.sleeps) = call.invocations - 1)
    /\ [][(call.max_retries >= 0 /\ SleepPending(call) /\ call' # call) =>
            \/ call.pc = "sleep" /\ call'.pc = "for" /\ SleepPending(call')
            \/ call.pc = "for" /\ call'.pc = "func"
                  /\ call'.invocations = call.invocations + 1
                  /\ call'.sleeps = call.sleeps]_vars

C27_Witness ==
    /\ call.max_retries = 2 /\ call.pc = "raised"
    /\ call.invocations = 3 /\ Len(call.sleeps) = 2
    /\ \A i \in 1..3 : FailedWith429(call.outcomes[i])

(***************************************************************************)
(* Claims about the temporary audio file of analyze_pitch (specification   *)
(* SpecAnalyze).                                                           *)
(***************************************************************************)
\* C28: when analyze_pitch has returned (or raised) for a video input, no temporary
\* audio file created during the call is left on disk, on any exit path: extraction
\* failure after the file was created, transcription failure or success, and an
\* exception during transcription.
C28_NoTempFileLeft ==
    (analyze.pc = "returned" /\ analyze.is_video) =>
        analyze.created \cap analyze.on_disk = {}

(***************************************************************************)
(* Claims about what the repair does to the text it is given               *)
(* (specification SpecPitch).                                              *)
(***************************************************************************)
\* w is a contiguous part of the text s
PartOf(w, s) == \E k \in 1..(Len(s) + 1) : StartsWithAt(s, k, w)

\* C29: every field value that generate_pitch obtains by scavenging is a contiguous
\* substring of the original LLM response text: no character that the repair step
\* added (a closing brace, a quote and comma) is inside a scavenged value.
C29_ScavengedFromResponse ==
    (pitch.pc = "done" /\ pitch.via = "scavenge") =>
        \A i \in 1..Len(PitchKeys) :
            FieldSearch(pitch.json_text, PitchKeys[i]).found =>
                /\ pitch.result.items[i].t = "str"
                /\ PartOf(pitch.result.items[i].s, pitch.pitch_text)

\* C30: the line scan of _fix_incomplete_json does not damage a text that the brace
\* balancing made valid: when the candidate with its missing closing braces appended
\* is well-formed JSON, _fix_incomplete_json returns that parsed value with all its
\* fields, whether the candidate is on one line or on several.
C30_LineScanKeepsValidText ==
    (pitch.pc = "done" /\ Len(pitch.stages) >= 2) =>
        LET Kept(r) == r.ok => (pitch.via = "repair" /\ pitch.result = r.val) IN
        Kept(JsonLoads(BraceBalanced(pitch.pitch_text_clean)))

====
